---------------------------- MODULE Spec2Model ----------------------------
(***************************************************************************)
(* A model of the analysis engine of pareto-decide                         *)
(* (src/pareto-decide/pareto_decide.py): Pareto dominance, marginal gains,  *)
(* sweet spots, tier transitions, segment bests and the analyze pipeline.   *)
(*                                                                          *)
(* Candidates ("configs") are Python dicts: here functions whose domain is  *)
(* the set of keys present.  Indices are 0-based as in the source; the      *)
(* candidate with index i is configs[i + 1].                                *)
(***************************************************************************)
EXTENDS Integers, Sequences, FiniteSets, TLC

VARIABLES
    configs,    \* the candidate list handed to the engine (analyze fills names in place)
    criteria,   \* the criteria list: records [name, direction, weight]
    ret         \* the last call made on the engine and what it returned or raised

vars == <<configs, criteria, ret>>

(***************************************************************************)
(* Bounds of the model                                                     *)
(***************************************************************************)
MaxN == 2        \* longest candidate list enumerated over all candidates
MaxVal == 2      \* enumerated criterion values are 0..MaxVal (or the key is absent)
MaxRuns == 2     \* analyze is run at most MaxRuns times on one candidate list

(***************************************************************************)
(* Python helpers                                                          *)
(***************************************************************************)
\* dict.get(key, 0)
Get(cfg, key) == IF key \in DOMAIN cfg THEN cfg[key] ELSE 0

\* range(n) as a sequence 0, 1, ..., n-1
Range(n) == [k \in 1..n |-> k - 1]

\* f"#{i}"
AutoName(i) == "#" \o ToString(i)

\* configs[i].get(name_field, f"#{i}"), with name_field = "name"
NameOf(cfgs, i) ==
    IF "name" \in DOMAIN cfgs[i + 1] THEN cfgs[i + 1]["name"] ELSE AutoName(i)

\* the elements of a sequence
Elems(s) == {s[k] : k \in 1..Len(s)}

(***************************************************************************)
(* Core: Pareto dominance                                                  *)
(***************************************************************************)
RECURSIVE is_dominated_loop(_, _, _, _, _)
\* the for-loop of is_dominated from criterion k on; any_strictly_better so far
is_dominated_loop(a, b, crit, k, any_strictly_better) ==
    IF k > Len(crit) THEN any_strictly_better
    ELSE LET c == crit[k]
             va == Get(a, c.name)
             vb == Get(b, c.name)
         IN IF c.direction = "maximize"
            THEN IF vb < va THEN FALSE
                 ELSE is_dominated_loop(a, b, crit, k + 1,
                                        any_strictly_better \/ vb > va)
            ELSE IF vb > va THEN FALSE
                 ELSE is_dominated_loop(a, b, crit, k + 1,
                                        any_strictly_better \/ vb < va)

\* is_dominated with any_strictly_better initialised to True
is_dominated_lax(a, b, crit) == is_dominated_loop(a, b, crit, 1, TRUE)

\* is_dominated that reads every criterion as one to maximize
is_dominated_maxonly(a, b, crit) ==
    is_dominated_loop(a, b,
                      [k \in 1..Len(crit) |-> [crit[k] EXCEPT !.direction = "maximize"]],
                      1, FALSE)

\* True if b dominates a
is_dominated(a, b, crit) == is_dominated_loop(a, b, crit, 1, FALSE)

RECURSIVE pareto_front_loop(_, _, _, _, _)
\* the for-loop of compute_pareto_front from index i on, scanning j over 0..jmax-1
pareto_front_loop(cfgs, crit, i, jmax, front) ==
    IF i >= Len(cfgs) THEN front
    ELSE IF ~ \E j \in 0..(jmax - 1) :
                  j # i /\ is_dominated(cfgs[i + 1], cfgs[j + 1], crit)
         THEN pareto_front_loop(cfgs, crit, i + 1, jmax, Append(front, i))
         ELSE pareto_front_loop(cfgs, crit, i + 1, jmax, front)

\* compute_pareto_front whose inner scan stops one candidate short (range(n - 1))
compute_pareto_front_short(cfgs, crit) ==
    pareto_front_loop(cfgs, crit, 0, Len(cfgs) - 1, <<>>)

\* Indices of non-dominated items
compute_pareto_front(cfgs, crit) ==
    pareto_front_loop(cfgs, crit, 0, Len(cfgs), <<>>)

\* the advantages list: criteria on which j is strictly better than i
advantages_of(cfgs, crit, i, j) ==
    LET better(c) ==
            LET vi == Get(cfgs[i + 1], c.name)
                vj == Get(cfgs[j + 1], c.name)
            IN (c.direction = "maximize" /\ vj > vi)
               \/ (c.direction = "minimize" /\ vj < vi)
        kept == SelectSeq(crit, better)
    IN [k \in 1..Len(kept) |->
           [field |-> kept[k].name,
            from  |-> Get(cfgs[i + 1], kept[k].name),
            to    |-> Get(cfgs[j + 1], kept[k].name)]]

\* "if len(dominators) >= 3: break"
DominatorCap == 3

RECURSIVE dominators_loop_nocap(_, _, _, _, _, _)
\* the inner loop of compute_dominated without its break
dominators_loop_nocap(cfgs, crit, front, i, p, dominators) ==
    IF p > Len(front) THEN dominators
    ELSE LET j == front[p] IN
         IF ~ is_dominated(cfgs[i + 1], cfgs[j + 1], crit)
         THEN dominators_loop_nocap(cfgs, crit, front, i, p + 1, dominators)
         ELSE dominators_loop_nocap(cfgs, crit, front, i, p + 1,
                  Append(dominators,
                         [index |-> j,
                          name |-> NameOf(cfgs, j),
                          advantages |-> advantages_of(cfgs, crit, i, j)]))

RECURSIVE dominators_loop_stopatmiss(_, _, _, _, _, _)
\* the inner loop of compute_dominated leaving the scan ("break") at the
\* first front member that does not dominate i
dominators_loop_stopatmiss(cfgs, crit, front, i, p, dominators) ==
    IF p > Len(front) THEN dominators
    ELSE LET j == front[p] IN
         IF ~ is_dominated(cfgs[i + 1], cfgs[j + 1], crit)
         THEN dominators
         ELSE LET d == Append(dominators,
                              [index |-> j,
                               name |-> NameOf(cfgs, j),
                               advantages |-> advantages_of(cfgs, crit, i, j)])
              IN IF Len(d) >= DominatorCap THEN d
                 ELSE dominators_loop_stopatmiss(cfgs, crit, front, i, p + 1, d)

RECURSIVE dominators_loop(_, _, _, _, _, _)
\* the inner loop "for j in front" of compute_dominated from position p on
dominators_loop(cfgs, crit, front, i, p, dominators) ==
    IF p > Len(front) THEN dominators
    ELSE LET j == front[p] IN
         IF ~ is_dominated(cfgs[i + 1], cfgs[j + 1], crit)
         THEN dominators_loop(cfgs, crit, front, i, p + 1, dominators)
         ELSE LET d == Append(dominators,
                              [index |-> j,
                               name |-> NameOf(cfgs, j),
                               advantages |-> advantages_of(cfgs, crit, i, j)])
              IN IF Len(d) >= DominatorCap THEN d
                 ELSE dominators_loop(cfgs, crit, front, i, p + 1, d)

RECURSIVE dominated_loop(_, _, _, _, _, _)
\* the outer loop of compute_dominated from index i on; skip tells whether
\* front members are passed over
dominated_loop(cfgs, crit, front, i, skip, result) ==
    IF i >= Len(cfgs) THEN result
    ELSE IF skip /\ i \in Elems(front)
         THEN dominated_loop(cfgs, crit, front, i + 1, skip, result)
         ELSE dominated_loop(cfgs, crit, front, i + 1, skip,
                  Append(result,
                         [index |-> i,
                          name |-> NameOf(cfgs, i),
                          dominated_by |->
                              dominators_loop(cfgs, crit, front, i, 1, <<>>)]))

\* compute_dominated without the "if i in front_set: continue" test
compute_dominated_noskip(cfgs, crit, front) ==
    dominated_loop(cfgs, crit, front, 0, FALSE, <<>>)

\* For each dominated item, find dominators with reasons
compute_dominated(cfgs, crit, front) ==
    dominated_loop(cfgs, crit, front, 0, TRUE, <<>>)

(***************************************************************************)
(* Python floats                                                           *)
(*                                                                         *)
(* A float is a fraction [num, den] with den > 0, and float("inf") is the   *)
(* fraction 1/0.  The engine's values are non-negative, so -inf and nan do  *)
(* not arise.  Calls that may raise return Ok(value) or Raised(exception).  *)
(***************************************************************************)
Frac(n, d) == IF d < 0 THEN [num |-> -n, den |-> -d] ELSE [num |-> n, den |-> d]
Int2F(n) == [num |-> n, den |-> 1]
Inf == [num |-> 1, den |-> 0]
IsInf(x) == x.den = 0

FLess(x, y) == x.num * y.den < y.num * x.den
FLeq(x, y) == ~ FLess(y, x)
FEq(x, y) == x.num * y.den = y.num * x.den

FAdd(x, y) ==
    IF IsInf(x) \/ IsInf(y) THEN Inf
    ELSE [num |-> x.num * y.den + y.num * x.den, den |-> x.den * y.den]

\* w * x for an integer weight w > 0
FScale(w, x) == IF IsInf(x) THEN Inf ELSE [num |-> w * x.num, den |-> x.den]

\* x / y for a finite y > 0
FDiv(x, y) ==
    IF IsInf(x) THEN Inf ELSE [num |-> x.num * y.den, den |-> x.den * y.num]

\* round(x, ndigits) with scale = 10^ndigits: the nearest multiple of 1/scale,
\* an exact tie going to the even one; round(inf, ndigits) is inf
FRound(x, scale) ==
    IF IsInf(x) THEN Inf
    ELSE LET t == x.num * scale
             f == t \div x.den
             r == t % x.den
             q == IF 2 * r < x.den THEN f
                  ELSE IF 2 * r > x.den THEN f + 1
                  ELSE IF f % 2 = 0 THEN f ELSE f + 1
         IN [num |-> q, den |-> scale]

Ok(v) == [raised |-> "none", value |-> v]
Raised(exc) == [raised |-> exc]
IsRaised(r) == r.raised # "none"

(***************************************************************************)
(* Marginal gain analysis                                                  *)
(***************************************************************************)
\* Improvement ratio respecting direction
_metric_ratio(v_from, v_to, direction) ==
    IF direction = "maximize"
    THEN IF v_from # 0 THEN Frac(v_to, v_from)
         ELSE IF v_to > 0 THEN Inf ELSE Int2F(1)
    ELSE IF v_to # 0 THEN Frac(v_from, v_to)
         ELSE IF v_from > 0 THEN Inf ELSE Int2F(1)

\* Per-criterion gain ratios between two configs
compute_marginal_gains(cfg_from, cfg_to, crit) ==
    [k \in 1..Len(crit) |->
        LET name == crit[k].name
            v_from == Get(cfg_from, name)
            v_to == Get(cfg_to, name)
            ratio == IF v_from # 0 THEN Frac(v_to, v_from)
                     ELSE IF v_to # 0 THEN Inf ELSE Int2F(1)
        IN [field |-> name, from |-> v_from, to |-> v_to,
            ratio |-> FRound(ratio, 1000)]]

RECURSIVE weighted_gain_loop(_, _, _, _, _, _, _)
\* the loop of compute_gain_score over the criteria from k on; returns
\* <<weighted_gain, total_weight>>
weighted_gain_loop(cfg_from, cfg_to, crit, sort_field, k, weighted_gain, total_weight) ==
    IF k > Len(crit) THEN <<weighted_gain, total_weight>>
    ELSE LET c == crit[k] IN
         IF c.name = sort_field
         THEN weighted_gain_loop(cfg_from, cfg_to, crit, sort_field, k + 1,
                                 weighted_gain, total_weight)
         ELSE weighted_gain_loop(cfg_from, cfg_to, crit, sort_field, k + 1,
                  FAdd(weighted_gain,
                       FScale(c.weight,
                              _metric_ratio(Get(cfg_from, c.name),
                                            Get(cfg_to, c.name), c.direction))),
                  total_weight + c.weight)

\* compute_gain_score with the direction test dropped: every pair is scored
\* as on an ascending axis
compute_gain_score_ascending(cfg_from, cfg_to, crit, sort_field, sort_direction) ==
    LET s_from == Get(cfg_from, sort_field)
        s_to == Get(cfg_to, sort_field)
        wt == weighted_gain_loop(cfg_from, cfg_to, crit, sort_field, 1, Int2F(0), 0)
        weighted_gain == IF wt[2] > 0 THEN FDiv(wt[1], Int2F(wt[2])) ELSE wt[1]
    IN IF s_from = 0 \/ s_to <= s_from THEN Ok(Int2F(0))
       ELSE Ok(FRound(FDiv(weighted_gain, Frac(s_to, s_from)), 10000))

\* Weighted performance gain / sort-axis change ratio.  The division
\* s_from / s_to of the descending branch raises when s_to is 0.
compute_gain_score(cfg_from, cfg_to, crit, sort_field, sort_direction) ==
    LET s_from == Get(cfg_from, sort_field)
        s_to == Get(cfg_to, sort_field)
        wt == weighted_gain_loop(cfg_from, cfg_to, crit, sort_field, 1, Int2F(0), 0)
        weighted_gain == IF wt[2] > 0 THEN FDiv(wt[1], Int2F(wt[2])) ELSE wt[1]
    IN IF s_from = 0 THEN Ok(Int2F(0))
       ELSE IF sort_direction = "asc"
            THEN IF s_to <= s_from THEN Ok(Int2F(0))
                 ELSE Ok(FRound(FDiv(weighted_gain, Frac(s_to, s_from)), 10000))
            ELSE IF s_to >= s_from THEN Ok(Int2F(0))
                 ELSE IF s_to = 0 THEN Raised("ZeroDivisionError")
                 ELSE Ok(FRound(FDiv(weighted_gain, Frac(s_from, s_to)), 10000))

(***************************************************************************)
(* sorted(): stable sorts                                                  *)
(***************************************************************************)
RECURSIVE StablePermLoop(_, _, _, _)
\* insertion of positions p, p+1, ... into acc, the positions before p
\* already sorted by key; equal keys keep their order (also under reverse=True)
StablePermLoop(keys, reverse, p, acc) ==
    IF p > Len(keys) THEN acc
    ELSE LET after(q) == IF reverse THEN FLess(keys[q], keys[p])
                                    ELSE FLess(keys[p], keys[q])
             later == {k \in 1..Len(acc) : after(acc[k])}
             at == IF later = {} THEN Len(acc) + 1
                   ELSE CHOOSE k \in later : \A m \in later : k <= m
         IN StablePermLoop(keys, reverse, p + 1,
                SubSeq(acc, 1, at - 1) \o <<p>> \o SubSeq(acc, at, Len(acc)))

\* the positions of keys in sorted order
StablePerm(keys, reverse) == StablePermLoop(keys, reverse, 1, <<>>)

\* sorted(seq, key=..., reverse=...) given the key of each element
SortedBy(seq, keys, reverse) ==
    LET perm == StablePerm(keys, reverse)
    IN [k \in 1..Len(seq) |-> seq[perm[k]]]

\* sorted(range(len(configs)), key=lambda i: configs[i].get(sort_field, 0), reverse=reverse)
sorted_indices_of(cfgs, sort_field, reverse) ==
    SortedBy(Range(Len(cfgs)),
             [k \in 1..Len(cfgs) |-> Int2F(Get(cfgs[k], sort_field))],
             reverse)

\* max(vals) - min(vals) over the axis values of a non-empty candidate list
sort_range_of(cfgs, sort_field) ==
    LET vals == {Get(cfgs[k], sort_field) : k \in 1..Len(cfgs)}
        hi == CHOOSE v \in vals : \A u \in vals : u <= v
        lo == CHOOSE v \in vals : \A u \in vals : v <= u
    IN hi - lo

Abs(x) == IF x < 0 THEN -x ELSE x

\* d < sort_range * 0.03
BelowThreePercent(d, sort_range) == 100 * d < 3 * sort_range

(***************************************************************************)
(* Sweet spots                                                             *)
(***************************************************************************)
\* the pair (prev, cfg) passes the noise filter "if gap < min_gap: continue"
gap_kept(cfgs, sort_field, sort_range, prev_idx, idx) ==
    LET gap == Abs(Get(cfgs[idx + 1], sort_field) - Get(cfgs[prev_idx + 1], sort_field))
    IN IF sort_range > 0 THEN ~ BelowThreePercent(gap, sort_range) ELSE ~ (gap < 0)

RECURSIVE best_gain_loop(_, _, _, _, _, _, _, _, _)
\* the inner loop of detect_sweet_spots over prev_pos from prev_pos on;
\* returns <<best_gain, best_from>>
best_gain_loop(cfgs, crit, sort_field, sort_direction, sorted_indices, pos, prev_pos, best_gain, best_from) ==
    IF prev_pos >= pos THEN <<best_gain, best_from>>
    ELSE LET idx == sorted_indices[pos + 1]
             prev_idx == sorted_indices[prev_pos + 1]
             score == compute_gain_score(cfgs[prev_idx + 1], cfgs[idx + 1], crit,
                                         sort_field, sort_direction)
         IN IF gap_kept(cfgs, sort_field, sort_range_of(cfgs, sort_field), prev_idx, idx)
               /\ FLess(best_gain, score.value)
            THEN best_gain_loop(cfgs, crit, sort_field, sort_direction, sorted_indices,
                                pos, prev_pos + 1, score.value, prev_idx)
            ELSE best_gain_loop(cfgs, crit, sort_field, sort_direction, sorted_indices,
                                pos, prev_pos + 1, best_gain, best_from)

\* the reason of a sweet spot: the 3 highest ratios, those above 1.1, as
\* <<field, ratio>> in place of f"{field}:{ratio:.1f}x"
reason_parts_of(gains) ==
    LET sorted == SortedBy(gains, [k \in 1..Len(gains) |-> gains[k].ratio], TRUE)
        top_gains == SubSeq(sorted, 1, IF Len(sorted) < 3 THEN Len(sorted) ELSE 3)
        kept == SelectSeq(top_gains, LAMBDA g : FLess(Frac(11, 10), g.ratio))
    IN [k \in 1..Len(kept) |-> <<kept[k].field, kept[k].ratio>>]

RECURSIVE sweet_spots_loop(_, _, _, _, _, _, _, _)
\* the outer loop of detect_sweet_spots over pos from pos on
sweet_spots_loop(cfgs, crit, sort_field, sort_direction, threshold, sorted_indices, pos, sweet_spots) ==
    IF pos >= Len(sorted_indices) THEN sweet_spots
    ELSE LET idx == sorted_indices[pos + 1]
             best == best_gain_loop(cfgs, crit, sort_field, sort_direction,
                                    sorted_indices, pos, 0, Int2F(0), sorted_indices[1])
             best_gain == best[1]
             best_from == best[2]
             gains == compute_marginal_gains(cfgs[best_from + 1], cfgs[idx + 1], crit)
         IN IF FLeq(threshold, best_gain)
            THEN sweet_spots_loop(cfgs, crit, sort_field, sort_direction, threshold,
                     sorted_indices, pos + 1,
                     Append(sweet_spots,
                            [config_index |-> idx,
                             name |-> NameOf(cfgs, idx),
                             sort_value |-> Get(cfgs[idx + 1], sort_field),
                             gain_score |-> best_gain,
                             compared_to_index |-> best_from,
                             compared_to_name |-> NameOf(cfgs, best_from),
                             reason |-> reason_parts_of(gains),
                             marginal_gains |-> gains]))
            ELSE sweet_spots_loop(cfgs, crit, sort_field, sort_direction, threshold,
                     sorted_indices, pos + 1, sweet_spots)

\* Items where gain_score is disproportionately high along the sort axis.
\* compute_gain_score is called on every pair that passes the gap filter,
\* and its ZeroDivisionError propagates.
detect_sweet_spots(cfgs, crit, sort_field, sort_direction, threshold) ==
    LET sorted_indices == sorted_indices_of(cfgs, sort_field, sort_direction = "desc")
        sort_range == sort_range_of(cfgs, sort_field)
        raises ==
            \E pos \in 1..(Len(cfgs) - 1), prev_pos \in 0..(Len(cfgs) - 2) :
                /\ prev_pos < pos
                /\ gap_kept(cfgs, sort_field, sort_range,
                            sorted_indices[prev_pos + 1], sorted_indices[pos + 1])
                /\ IsRaised(compute_gain_score(cfgs[sorted_indices[prev_pos + 1] + 1],
                                               cfgs[sorted_indices[pos + 1] + 1],
                                               crit, sort_field, sort_direction))
    IN IF Len(cfgs) < 2 THEN Ok(<<>>)
       ELSE IF raises THEN Raised("ZeroDivisionError")
       ELSE LET found == sweet_spots_loop(cfgs, crit, sort_field, sort_direction,
                                          threshold, sorted_indices, 1, <<>>)
            IN Ok(SortedBy(found, [k \in 1..Len(found) |-> found[k].gain_score], TRUE))

(***************************************************************************)
(* Tier transitions                                                        *)
(***************************************************************************)
\* the greatest number of buckets the axis range is divided into
TargetBucketCap == 15

\* int(val / bucket_size) with bucket_size = sort_range / target_buckets, for
\* val >= 0 and sort_range > 0
bucket_of(val, sort_range, target_buckets) == (val * target_buckets) \div sort_range

RECURSIVE representative_loop_everyone(_, _, _, _, _, _, _)
\* the loop without the "if bucket not in seen_buckets" test
representative_loop_everyone(cfgs, sort_field, sort_range, sorted_indices, p, seen_buckets, representative) ==
    IF p > Len(sorted_indices) THEN representative
    ELSE representative_loop_everyone(cfgs, sort_field, sort_range, sorted_indices, p + 1,
                                      seen_buckets, Append(representative, sorted_indices[p]))

RECURSIVE representative_loop(_, _, _, _, _, _, _)
\* the loop choosing one representative per bucket, from position p of
\* sorted_indices on
representative_loop(cfgs, sort_field, sort_range, sorted_indices, p, seen_buckets, representative) ==
    IF p > Len(sorted_indices) THEN representative
    ELSE LET idx == sorted_indices[p]
             target_buckets == IF Len(cfgs) < TargetBucketCap THEN Len(cfgs) ELSE TargetBucketCap
             bucket == bucket_of(Get(cfgs[idx + 1], sort_field), sort_range, target_buckets)
         IN IF bucket \notin seen_buckets
            THEN representative_loop(cfgs, sort_field, sort_range, sorted_indices, p + 1,
                                     seen_buckets \cup {bucket}, Append(representative, idx))
            ELSE representative_loop(cfgs, sort_field, sort_range, sorted_indices, p + 1,
                                     seen_buckets, representative)

\* the transition reported for the representatives from_idx, to_idx
transition_of(cfgs, crit, sort_field, sort_direction, from_idx, to_idx) ==
    LET s_from == Get(cfgs[from_idx + 1], sort_field)
        s_to == Get(cfgs[to_idx + 1], sort_field)
        sort_ratio == IF s_from # 0 THEN Frac(s_to, s_from) ELSE Int2F(0)
        gains == compute_marginal_gains(cfgs[from_idx + 1], cfgs[to_idx + 1], crit)
        jumps == SelectSeq(gains,
                     LAMBDA g : \/ FLess(Frac(12, 10), g.ratio)
                                \/ (FLess(Int2F(0), g.ratio) /\ FLess(g.ratio, Frac(83, 100))))
    IN [from_idx |-> from_idx,
        to_idx |-> to_idx,
        from_name |-> NameOf(cfgs, from_idx),
        to_name |-> NameOf(cfgs, to_idx),
        delta |-> Abs(s_to - s_from),
        sort_ratio |-> FRound(sort_ratio, 1000),
        key_jumps |-> [k \in 1..Len(jumps) |-> <<jumps[k].field, jumps[k].ratio>>],
        gain_score |-> compute_gain_score(cfgs[from_idx + 1], cfgs[to_idx + 1], crit,
                                          sort_field, sort_direction).value]

\* consecutive representatives at positions pos-1, pos whose delta is not
\* below min_delta
transition_kept(cfgs, sort_field, sort_range, representative, pos) ==
    ~ BelowThreePercent(
          Abs(Get(cfgs[representative[pos + 1] + 1], sort_field)
              - Get(cfgs[representative[pos] + 1], sort_field)),
          sort_range)

RECURSIVE transitions_loop(_, _, _, _, _, _, _, _)
\* the loop over consecutive representatives from pos on
transitions_loop(cfgs, crit, sort_field, sort_direction, sort_range, representative, pos, transitions) ==
    IF pos >= Len(representative) THEN transitions
    ELSE IF transition_kept(cfgs, sort_field, sort_range, representative, pos)
         THEN transitions_loop(cfgs, crit, sort_field, sort_direction, sort_range,
                  representative, pos + 1,
                  Append(transitions,
                         transition_of(cfgs, crit, sort_field, sort_direction,
                                       representative[pos], representative[pos + 1])))
         ELSE transitions_loop(cfgs, crit, sort_field, sort_direction, sort_range,
                  representative, pos + 1, transitions)

\* Sequential transitions along sort axis, finding disproportionate jumps
compute_tier_transitions(cfgs, crit, sort_field, sort_direction) ==
    IF Len(cfgs) < 2 THEN Ok(<<>>)
    ELSE LET sorted_indices == sorted_indices_of(cfgs, sort_field, sort_direction = "desc")
             sort_range == sort_range_of(cfgs, sort_field)
             representative == representative_loop(cfgs, sort_field, sort_range,
                                                   sorted_indices, 1, {}, <<>>)
             raises ==
                 \E pos \in 1..(Len(representative) - 1) :
                     /\ transition_kept(cfgs, sort_field, sort_range, representative, pos)
                     /\ IsRaised(compute_gain_score(cfgs[representative[pos] + 1],
                                                    cfgs[representative[pos + 1] + 1],
                                                    crit, sort_field, sort_direction))
         IN IF sort_range = 0 THEN Ok(<<>>)
            ELSE IF raises THEN Raised("ZeroDivisionError")
            ELSE Ok(transitions_loop(cfgs, crit, sort_field, sort_direction, sort_range,
                                     representative, 1, <<>>))

(***************************************************************************)
(* Normalization helpers                                                   *)
(***************************************************************************)
\* _normalize_value without the inversion for minimize
_normalize_value_noinvert(value, min_val, max_val, direction) ==
    IF max_val = min_val THEN Frac(1, 2)
    ELSE Frac(value - min_val, max_val - min_val)

\* Normalize to 0-1 range. For minimize, invert so higher = better
_normalize_value(value, min_val, max_val, direction) ==
    IF max_val = min_val THEN Frac(1, 2)
    ELSE IF direction = "minimize"
         THEN Frac((max_val - min_val) - (value - min_val), max_val - min_val)
         ELSE Frac(value - min_val, max_val - min_val)

\* Compute min/max per criterion across all configs: a function from the
\* criterion names to <<min, max>>.  min() of no values raises ValueError.
_build_min_max(cfgs, crit) ==
    IF crit # <<>> /\ cfgs = <<>> THEN Raised("ValueError")
    ELSE Ok([name \in {crit[k].name : k \in 1..Len(crit)} |->
                LET vals == {Get(cfgs[k], name) : k \in 1..Len(cfgs)}
                IN << CHOOSE v \in vals : \A u \in vals : v <= u,
                      CHOOSE v \in vals : \A u \in vals : u <= v >>])

RECURSIVE composite_loop_rawdirection(_, _, _, _, _, _)
\* the loop of _compute_composite_score normalizing every criterion as if it
\* were maximized
composite_loop_rawdirection(config, crit, min_max, k, weighted_sum, total_weight) ==
    IF k > Len(crit) THEN <<weighted_sum, total_weight>>
    ELSE LET c == crit[k]
             norm == _normalize_value(Get(config, c.name), min_max[c.name][1],
                                      min_max[c.name][2], "maximize")
         IN composite_loop_rawdirection(config, crit, min_max, k + 1,
                                        FAdd(weighted_sum, FScale(c.weight, norm)),
                                        total_weight + c.weight)

RECURSIVE composite_loop(_, _, _, _, _, _)
\* the loop of _compute_composite_score from criterion k on; returns
\* <<weighted_sum, total_weight>>
composite_loop(config, crit, min_max, k, weighted_sum, total_weight) ==
    IF k > Len(crit) THEN <<weighted_sum, total_weight>>
    ELSE LET c == crit[k]
             norm == _normalize_value(Get(config, c.name), min_max[c.name][1],
                                      min_max[c.name][2], c.direction)
         IN composite_loop(config, crit, min_max, k + 1,
                           FAdd(weighted_sum, FScale(c.weight, norm)),
                           total_weight + c.weight)

\* Weighted composite score (0-1) using normalized criterion values
_compute_composite_score(config, crit, min_max) ==
    LET st == composite_loop(config, crit, min_max, 1, Int2F(0), 0)
    IN IF st[2] > 0 THEN FRound(FDiv(st[1], Int2F(st[2])), 10000) ELSE Int2F(0)

(***************************************************************************)
(* Segment bests                                                           *)
(***************************************************************************)
\* int(math.sqrt(n))
ISqrt(n) == CHOOSE r \in 0..n : r * r <= n /\ (r + 1) * (r + 1) > n

\* max(3, min(8, int(math.sqrt(n))))
default_num_segments(n) ==
    LET r == ISqrt(n)
        m == IF r < 8 THEN r ELSE 8
    IN IF m > 3 THEN m ELSE 3

\* The bounds of a segment are doubles: seg_lo = lo + seg_idx * width and
\* seg_hi = seg_lo + width, with width = (hi - lo) / num_segments.  Against
\* the integer axis values of the model they compare as the exact fractions
\* do, except the seg_hi of the last segment, which IEEE rounding leaves
\* below hi for the pairs (lo, hi) listed here (3 segments; axis values
\* 0..6 and 10, 11, 15, 20, 50, 60, 100, 101).
last_hi_falls_short(lo, hi, num_segments) ==
    /\ num_segments = 3
    /\ <<lo, hi>> \in {<<1, 2>>, <<1, 3>>, <<2, 4>>, <<2, 6>>, <<3, 11>>, <<3, 50>>,
                       <<4, 15>>, <<6, 50>>, <<6, 100>>, <<10, 101>>, <<15, 50>>,
                       <<15, 100>>}

\* (seg_lo <= v < seg_hi) or (seg_idx == num_segments - 1 and v == seg_hi)
in_segment(v, lo, hi, num_segments, seg_idx) ==
    LET seg_lo == Frac(lo * num_segments + seg_idx * (hi - lo), num_segments)
        seg_hi == Frac(lo * num_segments + (seg_idx + 1) * (hi - lo), num_segments)
    IN IF seg_idx = num_segments - 1 /\ v = hi
       THEN ~ last_hi_falls_short(lo, hi, num_segments)
       ELSE FLeq(seg_lo, Int2F(v)) /\ FLess(Int2F(v), seg_hi)

\* max(seq, key=...): the first element with the greatest key
FirstMaxBy(seq, keys) ==
    LET k == CHOOSE k \in 1..Len(seq) :
                 /\ \A m \in 1..Len(seq) : FLeq(keys[m], keys[k])
                 /\ \A m \in 1..(k - 1) : FLess(keys[m], keys[k])
    IN seq[k]

\* the segment reported for seg_idx, given the indices that fall in it
segment_of(cfgs, crit, sort_field, lo, hi, num_segments, seg_idx, indices) ==
    LET min_max == _build_min_max(cfgs, crit).value
        non_sort_criteria == SelectSeq(crit, LAMBDA c : c.name # sort_field)
        local_configs == [k \in 1..Len(indices) |-> cfgs[indices[k] + 1]]
        local_front_local ==
            IF non_sort_criteria # <<>>
            THEN compute_pareto_front(local_configs, non_sort_criteria)
            ELSE Range(Len(indices))
        local_front_global ==
            [k \in 1..Len(local_front_local) |-> indices[local_front_local[k] + 1]]
        score_criteria == IF non_sort_criteria # <<>> THEN non_sort_criteria ELSE crit
        score(i) == _compute_composite_score(cfgs[i + 1], score_criteria, min_max)
        best_idx == FirstMaxBy(local_front_global,
                               [k \in 1..Len(local_front_global) |->
                                   score(local_front_global[k])])
        others == SelectSeq(local_front_global, LAMBDA i : i # best_idx)
    IN [range_low |-> FRound(Frac(lo * num_segments + seg_idx * (hi - lo),
                                  num_segments), 10000),
        range_high |-> FRound(Frac(lo * num_segments + (seg_idx + 1) * (hi - lo),
                                   num_segments), 10000),
        best_index |-> best_idx,
        best |-> NameOf(cfgs, best_idx),
        composite_score |-> score(best_idx),
        alternatives |-> [k \in 1..Len(others) |-> NameOf(cfgs, others[k])],
        item_count |-> Len(indices)]

RECURSIVE segments_loop(_, _, _, _, _, _, _, _)
\* the loop over seg_idx from seg_idx on
segments_loop(cfgs, crit, sort_field, lo, hi, num_segments, seg_idx, segments) ==
    IF seg_idx >= num_segments THEN segments
    ELSE LET indices ==
                 SelectSeq(Range(Len(cfgs)),
                           LAMBDA i : in_segment(Get(cfgs[i + 1], sort_field), lo, hi,
                                                 num_segments, seg_idx))
         IN IF indices = <<>>
            THEN segments_loop(cfgs, crit, sort_field, lo, hi, num_segments,
                               seg_idx + 1, segments)
            ELSE segments_loop(cfgs, crit, sort_field, lo, hi, num_segments, seg_idx + 1,
                     Append(segments,
                            segment_of(cfgs, crit, sort_field, lo, hi, num_segments,
                                       seg_idx, indices)))

\* compute_segment_bests without the "if lo == hi: return []" test
compute_segment_bests_norangetest(cfgs, crit, sort_field) ==
    IF cfgs = <<>> THEN Raised("ValueError")
    ELSE LET vals == {Get(cfgs[k], sort_field) : k \in 1..Len(cfgs)}
             lo == CHOOSE v \in vals : \A u \in vals : v <= u
             hi == CHOOSE v \in vals : \A u \in vals : u <= v
         IN Ok(segments_loop(cfgs, crit, sort_field, lo, hi,
                             default_num_segments(Len(cfgs)), 0, <<>>))

\* Split sort axis into equal-width segments, find best per segment
\* (num_segments = None).  min(vals) of no values raises ValueError.
compute_segment_bests(cfgs, crit, sort_field) ==
    IF cfgs = <<>> THEN Raised("ValueError")
    ELSE LET vals == {Get(cfgs[k], sort_field) : k \in 1..Len(cfgs)}
             lo == CHOOSE v \in vals : \A u \in vals : v <= u
             hi == CHOOSE v \in vals : \A u \in vals : u <= v
         IN IF lo = hi THEN Ok(<<>>)
            ELSE Ok(segments_loop(cfgs, crit, sort_field, lo, hi,
                                  default_num_segments(Len(cfgs)), 0, <<>>))

(***************************************************************************)
(* Traps                                                                   *)
(***************************************************************************)
\* sort_field is None (or empty): "if sort_field:" is false
NoAxis == ""

\* x / max(abs(u), abs(v), 1e-9), for integers x, u, v
relative_margin(x, u, v) ==
    LET ref == IF Abs(u) > Abs(v) THEN Abs(u) ELSE Abs(v)
    IN IF ref = 0 THEN Int2F(0)   \* x is 0 as well: 0 / 1e-9 = 0
       ELSE Frac(x, ref)

\* x / max(abs(u), abs(v), 1e-9) > limit, for a limit >= 0
RelativeAbove(x, u, v, limit) == FLess(limit, relative_margin(x, u, v))

\* the proximity check on the sort axis lets the pair (i, j) through
close_on_axis(cfgs, sort_field, tolerance, i, j) ==
    LET vi_s == Get(cfgs[i + 1], sort_field)
        vj_s == Get(cfgs[j + 1], sort_field)
    IN sort_field = NoAxis \/ ~ RelativeAbove(Abs(vi_s - vj_s), vi_s, vj_s, tolerance)

\* criterion c counts for j (j_better) on the pair (i, j)
counts_for_j(cfgs, c, i, j) ==
    LET ci == Get(cfgs[i + 1], c.name)
        cj == Get(cfgs[j + 1], c.name)
    IN IF c.direction = "maximize"
       THEN RelativeAbove(cj - ci, ci, cj, Frac(1, 10))
       ELSE RelativeAbove(ci - cj, ci, cj, Frac(1, 10))

\* criterion c counts for i (i_better) on the pair (i, j)
counts_for_i(cfgs, c, i, j) ==
    LET ci == Get(cfgs[i + 1], c.name)
        cj == Get(cfgs[j + 1], c.name)
    IN /\ ~ counts_for_j(cfgs, c, i, j)
       /\ IF c.direction = "maximize"
          THEN RelativeAbove(ci - cj, ci, cj, Frac(1, 10))
          ELSE RelativeAbove(cj - ci, ci, cj, Frac(1, 10))

\* [c for c in criteria if c["name"] != sort_field] if sort_field else criteria
compare_criteria_of(crit, sort_field) ==
    IF sort_field # NoAxis THEN SelectSeq(crit, LAMBDA c : c.name # sort_field) ELSE crit

\* j makes i a trap when it dominates i on the compared criteria: pure
\* domination in place of the 10% margins
is_trap_pair_puredomination(cfgs, crit, sort_field, tolerance, i, j) ==
    /\ i # j
    /\ close_on_axis(cfgs, sort_field, tolerance, i, j)
    /\ is_dominated(cfgs[i + 1], cfgs[j + 1], compare_criteria_of(crit, sort_field))

\* j makes i a trap: close on the axis, j_better >= 2 and i_better == 0
is_trap_pair(cfgs, crit, sort_field, tolerance, i, j) ==
    LET cc == compare_criteria_of(crit, sort_field)
        j_better == Cardinality({k \in 1..Len(cc) : counts_for_j(cfgs, cc[k], i, j)})
        i_better == Cardinality({k \in 1..Len(cc) : counts_for_i(cfgs, cc[k], i, j)})
    IN /\ i # j
       /\ close_on_axis(cfgs, sort_field, tolerance, i, j)
       /\ j_better >= 2
       /\ i_better = 0

\* the trap reported for i with dominator j
trap_of(cfgs, crit, sort_field, i, j) ==
    LET cc == compare_criteria_of(crit, sort_field)
        won == SelectSeq(cc, LAMBDA c : counts_for_j(cfgs, c, i, j))
    IN [index |-> i,
        name |-> NameOf(cfgs, i),
        dominated_by_index |-> j,
        dominated_by_name |-> NameOf(cfgs, j),
        details |-> [k \in 1..Len(won) |->
                        [field |-> won[k].name,
                         from |-> Get(cfgs[i + 1], won[k].name),
                         to |-> Get(cfgs[j + 1], won[k].name)]],
        sort_diff |-> IF sort_field # NoAxis
                      THEN Abs(Get(cfgs[i + 1], sort_field) - Get(cfgs[j + 1], sort_field))
                      ELSE 0]

RECURSIVE traps_loop(_, _, _, _, _, _)
\* the outer loop of detect_traps from index i on; the inner loop stops at
\* the first j that makes i a trap
traps_loop(cfgs, crit, sort_field, tolerance, i, traps) ==
    IF i >= Len(cfgs) THEN traps
    ELSE LET js == {j \in 0..(Len(cfgs) - 1) :
                        is_trap_pair(cfgs, crit, sort_field, tolerance, i, j)}
         IN IF js = {}
            THEN traps_loop(cfgs, crit, sort_field, tolerance, i + 1, traps)
            ELSE traps_loop(cfgs, crit, sort_field, tolerance, i + 1,
                     Append(traps,
                            trap_of(cfgs, crit, sort_field, i,
                                    CHOOSE j \in js : \A m \in js : j <= m)))

RECURSIVE traps_loop_lastmatch(_, _, _, _, _, _)
\* traps_loop with the inner loop running to its end: the last j wins
traps_loop_lastmatch(cfgs, crit, sort_field, tolerance, i, traps) ==
    IF i >= Len(cfgs) THEN traps
    ELSE LET js == {j \in 0..(Len(cfgs) - 1) :
                        is_trap_pair(cfgs, crit, sort_field, tolerance, i, j)}
         IN IF js = {}
            THEN traps_loop_lastmatch(cfgs, crit, sort_field, tolerance, i + 1, traps)
            ELSE traps_loop_lastmatch(cfgs, crit, sort_field, tolerance, i + 1,
                     Append(traps,
                            trap_of(cfgs, crit, sort_field, i,
                                    CHOOSE j \in js : \A m \in js : j >= m)))

detect_traps_lastmatch(cfgs, crit, sort_field, tolerance) ==
    traps_loop_lastmatch(cfgs, crit, sort_field, tolerance, 0, <<>>)

\* Trap items: close on sort axis but strictly worse on other criteria
detect_traps(cfgs, crit, sort_field, tolerance) ==
    traps_loop(cfgs, crit, sort_field, tolerance, 0, <<>>)

(***************************************************************************)
(* Front trade-offs, auto-detect, weighted ranking                         *)
(***************************************************************************)
\* the strengths / weaknesses entry of front member idx
tradeoff_item_of(cfgs, crit, min_max, idx) ==
    LET norm(c) == _normalize_value(Get(cfgs[idx + 1], c.name), min_max[c.name][1],
                                    min_max[c.name][2], c.direction)
        strong == SelectSeq(crit, LAMBDA c : FLeq(Frac(8, 10), norm(c)))
        weak == SelectSeq(crit, LAMBDA c : ~ FLeq(Frac(8, 10), norm(c))
                                           /\ FLeq(norm(c), Frac(2, 10)))
    IN [index |-> idx,
        name |-> NameOf(cfgs, idx),
        strengths |-> [k \in 1..Len(strong) |-> strong[k].name],
        weaknesses |-> [k \in 1..Len(weak) |-> weak[k].name]]

\* criterion c is won by x over y (strictly better by raw value)
wins_on(cfgs, c, x, y) ==
    LET vx == Get(cfgs[x + 1], c.name)
        vy == Get(cfgs[y + 1], c.name)
    IN IF c.direction = "maximize" THEN vx > vy ELSE vx < vy

RECURSIVE pairwise_loop_keepequal(_, _, _, _, _, _)
\* the pairwise loop without the "if a_better or b_better" test
pairwise_loop_keepequal(cfgs, crit, front, i_pos, j_pos, tradeoffs) ==
    IF i_pos >= Len(front) THEN tradeoffs
    ELSE IF j_pos >= Len(front)
         THEN pairwise_loop_keepequal(cfgs, crit, front, i_pos + 1, i_pos + 2, tradeoffs)
         ELSE LET a_idx == front[i_pos + 1]
                  b_idx == front[j_pos + 1]
                  a_better == SelectSeq(crit, LAMBDA c : wins_on(cfgs, c, a_idx, b_idx))
                  b_better == SelectSeq(crit, LAMBDA c : wins_on(cfgs, c, b_idx, a_idx))
              IN pairwise_loop_keepequal(cfgs, crit, front, i_pos, j_pos + 1,
                     Append(tradeoffs,
                            [a |-> NameOf(cfgs, a_idx),
                             b |-> NameOf(cfgs, b_idx),
                             a_better_at |-> [k \in 1..Len(a_better) |-> a_better[k].name],
                             b_better_at |-> [k \in 1..Len(b_better) |-> b_better[k].name]]))

RECURSIVE pairwise_loop(_, _, _, _, _, _)
\* the double loop over front positions i_pos < j_pos, from (i_pos, j_pos) on
pairwise_loop(cfgs, crit, front, i_pos, j_pos, tradeoffs) ==
    IF i_pos >= Len(front) THEN tradeoffs
    ELSE IF j_pos >= Len(front)
         THEN pairwise_loop(cfgs, crit, front, i_pos + 1, i_pos + 2, tradeoffs)
         ELSE LET a_idx == front[i_pos + 1]
                  b_idx == front[j_pos + 1]
                  a_better == SelectSeq(crit, LAMBDA c : wins_on(cfgs, c, a_idx, b_idx))
                  b_better == SelectSeq(crit, LAMBDA c : wins_on(cfgs, c, b_idx, a_idx))
              IN IF a_better # <<>> \/ b_better # <<>>
                 THEN pairwise_loop(cfgs, crit, front, i_pos, j_pos + 1,
                          Append(tradeoffs,
                                 [a |-> NameOf(cfgs, a_idx),
                                  b |-> NameOf(cfgs, b_idx),
                                  a_better_at |-> [k \in 1..Len(a_better) |-> a_better[k].name],
                                  b_better_at |-> [k \in 1..Len(b_better) |-> b_better[k].name]]))
                 ELSE pairwise_loop(cfgs, crit, front, i_pos, j_pos + 1, tradeoffs)

\* Per-item strengths/weaknesses + pairwise trade-off summary for front items
compute_front_tradeoffs(cfgs, crit, front) ==
    IF Len(front) < 2 THEN <<>>
    ELSE LET min_max == _build_min_max(cfgs, crit).value
         IN << [items |-> [k \in 1..Len(front) |->
                              tradeoff_item_of(cfgs, crit, min_max, front[k])],
                pairwise |-> pairwise_loop(cfgs, crit, front, 0, 1, <<>>)] >>

\* auto-detection taking the first minimize criterion, however many there are
_auto_detect_first_minimize(crit) ==
    LET minimize_criteria == SelectSeq(crit, LAMBDA c : c.direction = "minimize")
    IN IF Len(minimize_criteria) >= 1 THEN <<minimize_criteria[1].name, "asc">>
       ELSE <<NoAxis, "asc">>

\* If exactly one minimize criterion, use it as sort axis (asc)
_auto_detect_sort_field(crit) ==
    LET minimize_criteria == SelectSeq(crit, LAMBDA c : c.direction = "minimize")
    IN IF Len(minimize_criteria) = 1
       THEN <<minimize_criteria[1].name, "asc">>
       ELSE <<NoAxis, "asc">>

\* compute_weighted_ranking sorting ascending and reversing the list, which
\* turns the order of equal scores around
compute_weighted_ranking_reversed(cfgs, crit) ==
    LET mm == _build_min_max(cfgs, crit)
        score(i) == _compute_composite_score(cfgs[i + 1], crit, mm.value)
        asc == SortedBy(Range(Len(cfgs)),
                        [k \in 1..Len(cfgs) |-> score(k - 1)], FALSE)
        ranked == [k \in 1..Len(asc) |-> asc[Len(asc) + 1 - k]]
    IN IF IsRaised(mm) THEN mm
       ELSE Ok([k \in 1..Len(ranked) |->
                   [index |-> ranked[k],
                    name |-> NameOf(cfgs, ranked[k]),
                    composite_score |-> score(ranked[k]),
                    rank |-> k]])

\* Rank all items by composite score. Fallback when no sort axis
compute_weighted_ranking(cfgs, crit) ==
    LET mm == _build_min_max(cfgs, crit)
        score(i) == _compute_composite_score(cfgs[i + 1], crit, mm.value)
        ranked == SortedBy(Range(Len(cfgs)),
                           [k \in 1..Len(cfgs) |-> score(k - 1)], TRUE)
    IN IF IsRaised(mm) THEN mm
       ELSE Ok([k \in 1..Len(ranked) |->
                   [index |-> ranked[k],
                    name |-> NameOf(cfgs, ranked[k]),
                    composite_score |-> score(ranked[k]),
                    rank |-> k]])

(***************************************************************************)
(* Analysis pipeline                                                       *)
(***************************************************************************)
\* the name fill writing "<name>#<i>" into every candidate, named or not
fill_names_append(cfgs) ==
    [k \in 1..Len(cfgs) |->
        [name |-> (IF "name" \in DOMAIN cfgs[k] THEN cfgs[k].name ELSE "") \o AutoName(k - 1)]
        @@ cfgs[k]]

\* the name fill with its test dropped: every candidate is named "#<i>"
fill_names_overwrite(cfgs) ==
    [k \in 1..Len(cfgs) |-> [name |-> AutoName(k - 1)] @@ cfgs[k]]

\* the candidate list after "if name_field not in cfg: cfg[name_field] = f'#{i}'"
fill_names(cfgs) ==
    [k \in 1..Len(cfgs) |->
        IF "name" \in DOMAIN cfgs[k] THEN cfgs[k]
        ELSE cfgs[k] @@ [name |-> AutoName(k - 1)]]

\* the axis analyze works with: <<sort_field, sort_direction, sort_field_auto>>
resolve_axis(crit, sort_field, sort_direction) ==
    IF sort_field # NoAxis THEN <<sort_field, sort_direction, FALSE>>
    ELSE LET detected == _auto_detect_sort_field(crit)
         IN IF detected[1] # NoAxis THEN <<detected[1], detected[2], TRUE>>
            ELSE <<NoAxis, sort_direction, FALSE>>

\* base_result with front_tradeoffs set whatever the size of the front
base_result_alwaystradeoffs(cfgs, crit, front, dominated) ==
    [summary |-> [total |-> Len(cfgs),
                  pareto_count |-> Len(front),
                  pareto_ratio |-> IF cfgs # <<>>
                                   THEN FRound(Frac(Len(front), Len(cfgs)), 1000)
                                   ELSE Int2F(0)],
     pareto_front |-> front,
     pareto_front_names |-> [k \in 1..Len(front) |-> NameOf(cfgs, front[k])],
     dominated |-> dominated,
     criteria_used |-> crit,
     front_tradeoffs |-> compute_front_tradeoffs(cfgs, crit, front)]

\* the part of the result built before the axis is resolved
base_result(cfgs, crit, front, dominated) ==
    [summary |-> [total |-> Len(cfgs),
                  pareto_count |-> Len(front),
                  pareto_ratio |-> IF cfgs # <<>>
                                   THEN FRound(Frac(Len(front), Len(cfgs)), 1000)
                                   ELSE Int2F(0)],
     pareto_front |-> front,
     pareto_front_names |-> [k \in 1..Len(front) |-> NameOf(cfgs, front[k])],
     dominated |-> dominated,
     criteria_used |-> crit]
    @@ (IF Len(front) >= 2
        THEN [front_tradeoffs |-> compute_front_tradeoffs(cfgs, crit, front)]
        ELSE <<>>)

\* the "if sort_field:" branch of analyze
axis_result(cfgs, crit, base, axis, threshold, tolerance) ==
    LET sweet_spots == detect_sweet_spots(cfgs, crit, axis[1], axis[2], threshold)
        traps == detect_traps(cfgs, crit, axis[1], tolerance)
        transitions == compute_tier_transitions(cfgs, crit, axis[1], axis[2])
        segment_bests == compute_segment_bests(cfgs, crit, axis[1])
    IN IF IsRaised(sweet_spots) THEN sweet_spots
       ELSE IF IsRaised(transitions) THEN transitions
       ELSE IF IsRaised(segment_bests) THEN segment_bests
       ELSE Ok([sort_field |-> axis[1],
                sort_direction |-> axis[2],
                sweet_spots |-> sweet_spots.value,
                traps |-> traps,
                tier_transitions |-> transitions.value,
                segment_bests |-> segment_bests.value,
                summary |-> base.summary
                            @@ [sweet_spots_count |-> Len(sweet_spots.value),
                                traps_count |-> Len(traps),
                                segment_count |-> Len(segment_bests.value)]]
               @@ (IF axis[3] THEN [sort_field_auto_detected |-> TRUE] ELSE <<>>)
               @@ base)

\* the "else:" branch writing the traps entry and its count unconditionally
ranking_result_alwaystraps(cfgs, crit, base, tolerance) ==
    LET traps == detect_traps(cfgs, crit, NoAxis, tolerance)
        ranking == compute_weighted_ranking(cfgs, crit)
    IN IF IsRaised(ranking) THEN ranking
       ELSE Ok([weighted_ranking |-> ranking.value,
                traps |-> traps,
                summary |-> base.summary @@ [traps_count |-> Len(traps)]]
               @@ base)

\* the "else:" branch of analyze
ranking_result(cfgs, crit, base, tolerance) ==
    LET traps == detect_traps(cfgs, crit, NoAxis, tolerance)
        ranking == compute_weighted_ranking(cfgs, crit)
    IN IF IsRaised(ranking) THEN ranking
       ELSE Ok([weighted_ranking |-> ranking.value]
               @@ (IF traps # <<>>
                   THEN [traps |-> traps,
                         summary |-> base.summary @@ [traps_count |-> Len(traps)]]
                   ELSE <<>>)
               @@ base)

\* Run full analysis pipeline, on the candidate list with its names filled:
\* Ok(result) or Raised(exception)
analyze(cfgs, crit, sort_field, sort_direction, threshold, tolerance) ==
    LET front == compute_pareto_front(cfgs, crit)
        dominated == compute_dominated(cfgs, crit, front)
        base == base_result(cfgs, crit, front, dominated)
        axis == resolve_axis(crit, sort_field, sort_direction)
    IN IF axis[1] # NoAxis
       THEN axis_result(cfgs, crit, base, axis, threshold, tolerance)
       ELSE ranking_result(cfgs, crit, base, tolerance)

(***************************************************************************)
(* Inputs                                                                  *)
(***************************************************************************)
\* the criterion fields of the enumerated candidates
DomFields == {"cost", "perf"}

\* the candidates over the fields F: every key valued 0..MaxVal, or some keys
\* absent and the others valued MaxVal
Candidates(F) ==
    [F -> 0..MaxVal] \cup UNION {[S -> {MaxVal}] : S \in (SUBSET F) \ {F}}

\* the candidates over the fields F with extreme values only
Corners(F) == [F -> {0, MaxVal}]

\* every list of at most n elements of S
ListsUpTo(S, n) == UNION {[1..k -> S] : k \in 0..n}

Criterion(n, d, w) == [name |-> n, direction |-> d, weight |-> w]

Directions == {"maximize", "minimize"}

\* every criteria list over the fields F with unique names and weight 1,
\* the empty list included
CriteriaLists(F) ==
    {cl \in ListsUpTo({Criterion(n, d, 1) : n \in F, d \in Directions},
                      Cardinality(F)) :
        \A p, q \in 1..Len(cl) : p # q => cl[p].name # cl[q].name}

\* Scenario A of the specification
ScenarioA ==
    << [name |-> "A", cost |-> 10, perf |-> 50],
       [name |-> "B", cost |-> 20, perf |-> 100],
       [name |-> "C", cost |-> 15, perf |-> 60] >>

MinCostMaxPerf == << Criterion("cost", "minimize", 1), Criterion("perf", "maximize", 1) >>

MaxPerfOnly == << Criterion("perf", "maximize", 1) >>

NoCall == [op |-> "none"]

(***************************************************************************)
(* The dominance engine called on its own                                  *)
(***************************************************************************)
\* three candidates of which, with cost minimized and perf maximized, the
\* first two trade off against each other and both dominate the third
CrowdCandidates ==
    {[cost |-> 0, perf |-> 1], [cost |-> 1, perf |-> MaxVal], [cost |-> MaxVal, perf |-> 0]}

InitDominance ==
    /\ \/ /\ configs \in ListsUpTo(Candidates(DomFields), MaxN)
                         \cup [1..(MaxN + 1) -> Corners(DomFields)]
                         \cup [1..(MaxN + DominatorCap) -> CrowdCandidates]
          /\ criteria \in CriteriaLists(DomFields)
       \/ /\ configs = ScenarioA
          /\ criteria = MinCostMaxPerf
    /\ ret = NoCall

\* is_dominated(configs[i], configs[j], criteria)
CallIsDominated ==
    \E i, j \in 0..(Len(configs) - 1) :
        /\ ret = NoCall
        /\ ret' = [op |-> "is_dominated", a |-> i, b |-> j,
                   value |-> is_dominated(configs[i + 1], configs[j + 1], criteria)]
        /\ UNCHANGED <<configs, criteria>>

\* front = compute_pareto_front(configs, criteria)
CallParetoFront ==
    /\ ret = NoCall
    /\ ret' = [op |-> "compute_pareto_front",
               value |-> compute_pareto_front(configs, criteria)]
    /\ UNCHANGED <<configs, criteria>>

\* dominated = compute_dominated(configs, criteria, front, name_field), on the
\* front just computed
CallDominated ==
    /\ ret.op = "compute_pareto_front"
    /\ ret' = [op |-> "compute_dominated", front |-> ret.value,
               value |-> compute_dominated(configs, criteria, ret.value)]
    /\ UNCHANGED <<configs, criteria>>

\* compute_front_tradeoffs(configs, criteria, front, name_field), on the
\* front just computed
CallFrontTradeoffs ==
    /\ ret.op = "compute_pareto_front"
    /\ ret' = [op |-> "compute_front_tradeoffs", front |-> ret.value,
               value |-> compute_front_tradeoffs(configs, criteria, ret.value)]
    /\ UNCHANGED <<configs, criteria>>

NextDominance ==
    CallIsDominated \/ CallParetoFront \/ CallDominated \/ CallFrontTradeoffs

SpecDominance == InitDominance /\ [][NextDominance]_vars

(***************************************************************************)
(* The gain functions called on a pair of candidates                       *)
(***************************************************************************)
AllFields == {"cost", "perf", "ram"}

Weights == {1, 2}

SortDirections == {"asc", "desc"}

\* every criteria list over the fields F with unique names and a weight
\* from Weights each, the empty list included
WeightedCriteriaLists(F) ==
    {cl \in ListsUpTo({Criterion(n, d, w) : n \in F, d \in Directions, w \in Weights},
                      Cardinality(F)) :
        \A p, q \in 1..Len(cl) : p # q => cl[p].name # cl[q].name}

\* the criteria lists cost, perf, ram with every direction and weight
ThreeCriteriaLists ==
    {<<c1, c2, c3>> :
        c1 \in {Criterion("cost", d, w) : d \in Directions, w \in Weights},
        c2 \in {Criterion("perf", d, w) : d \in Directions, w \in Weights},
        c3 \in {Criterion("ram", d, w) : d \in Directions, w \in Weights}}

\* the criteria lists cost, perf, ram with every direction and weight 1
UnitThreeCriteriaLists ==
    {cl \in ThreeCriteriaLists : \A k \in 1..3 : cl[k].weight = 1}

\* configs is the pair <<cfg_from, cfg_to>>
InitGain ==
    /\ \/ /\ configs \in [1..2 -> Candidates(DomFields)]
          /\ criteria \in WeightedCriteriaLists(DomFields)
       \/ /\ configs \in [1..2 -> Corners(AllFields)]
          /\ criteria \in ThreeCriteriaLists
    /\ ret = NoCall

\* _metric_ratio(v_from, v_to, c["direction"]) on one criterion of the pair
CallMetricRatio ==
    \E k \in 1..Len(criteria) :
        /\ ret = NoCall
        /\ ret' = [op |-> "_metric_ratio", field |-> criteria[k].name,
                   raised |-> "none",
                   value |-> _metric_ratio(Get(configs[1], criteria[k].name),
                                           Get(configs[2], criteria[k].name),
                                           criteria[k].direction)]
        /\ UNCHANGED <<configs, criteria>>

\* compute_marginal_gains(cfg_from, cfg_to, criteria)
CallMarginalGains ==
    /\ ret = NoCall
    /\ ret' = [op |-> "compute_marginal_gains", raised |-> "none",
               value |-> compute_marginal_gains(configs[1], configs[2], criteria)]
    /\ UNCHANGED <<configs, criteria>>

\* compute_gain_score(cfg_from, cfg_to, criteria, sort_field, sort_direction)
CallGainScore ==
    \E sf \in AllFields, sd \in SortDirections :
        /\ ret = NoCall
        /\ ret' = [op |-> "compute_gain_score", sort_field |-> sf,
                   sort_direction |-> sd]
                  @@ compute_gain_score(configs[1], configs[2], criteria, sf, sd)
        /\ UNCHANGED <<configs, criteria>>

NextGain == CallMetricRatio \/ CallMarginalGains \/ CallGainScore

SpecGain == InitGain /\ [][NextGain]_vars

(***************************************************************************)
(* The axis analyses called on a candidate list, with cost as the axis     *)
(***************************************************************************)
\* sweet-spot thresholds: 0, 0.0001 and the default 0.85
Thresholds == {Int2F(0), Frac(1, 10000), Frac(85, 100)}

\* the candidates of the lists the axis analyses run on
AxisCandidates == [DomFields -> {0, 1, MaxVal}]

\* candidates with a cost of 0, 1 or MaxVal and a positive perf
LadderCandidates == {[cost |-> c, perf |-> q] : c \in {0, 1, MaxVal}, q \in {1, MaxVal}}

\* the lists of three of them, among which are those with three different
\* axis values
Ladders == {<<a, b, c>> : a, b, c \in LadderCandidates}

\* lists of three candidates whose last bin, 4.667 to 6, holds the
\* candidates of cost 5 and 6
WideLastBin == {<<[cost |-> 2, perf |-> a], [cost |-> 5, perf |-> b], [cost |-> 6, perf |-> c]>> : a, b, c \in {1, MaxVal}}

\* lists of three candidates with extreme values on cost, perf and ram, of
\* which two or three share a bin
SharedBins == {<<a, b, c>> : a, b, c \in Corners(AllFields)}

\* one more candidate than TargetBucketCap, with costs 1, 2, ... one apart
Staircase == [k \in 1..(TargetBucketCap + 1) |-> [cost |-> k, perf |-> k + 1]]

\* two candidates whose perf falls from 100 to 83, a ratio of 0.83
SlightDrop == <<[cost |-> 1, perf |-> 100], [cost |-> 2, perf |-> 83]>>

InitAxis ==
    /\ \/ /\ configs \in ListsUpTo(AxisCandidates, MaxN)
                         \cup [1..(MaxN + 1) -> Corners(DomFields)]
                         \cup Ladders
                         \cup WideLastBin
                         \cup {Staircase, SlightDrop}
          /\ criteria \in CriteriaLists(DomFields)
       \/ /\ configs \in SharedBins
          /\ criteria \in UnitThreeCriteriaLists
       \/ /\ configs \in [1..2 -> Corners(AllFields)]
          /\ criteria \in ThreeCriteriaLists
       \/ /\ configs = ScenarioA
          /\ criteria = MinCostMaxPerf
    /\ ret = NoCall

\* detect_sweet_spots(configs, criteria, "cost", sort_direction, threshold, name_field)
CallSweetSpots ==
    \E sd \in SortDirections, th \in Thresholds :
        /\ ret = NoCall
        /\ ret' = [op |-> "detect_sweet_spots", sort_field |-> "cost",
                   sort_direction |-> sd, threshold |-> th]
                  @@ detect_sweet_spots(configs, criteria, "cost", sd, th)
        /\ UNCHANGED <<configs, criteria>>

\* compute_tier_transitions(configs, criteria, "cost", sort_direction, name_field)
CallTierTransitions ==
    \E sd \in SortDirections :
        /\ ret = NoCall
        /\ ret' = [op |-> "compute_tier_transitions", sort_field |-> "cost",
                   sort_direction |-> sd]
                  @@ compute_tier_transitions(configs, criteria, "cost", sd)
        /\ UNCHANGED <<configs, criteria>>

\* compute_segment_bests(configs, criteria, "cost", sort_direction, name_field)
CallSegmentBests ==
    \E sd \in SortDirections :
        /\ ret = NoCall
        /\ ret' = [op |-> "compute_segment_bests", sort_field |-> "cost",
                   sort_direction |-> sd]
                  @@ compute_segment_bests(configs, criteria, "cost")
        /\ UNCHANGED <<configs, criteria>>

NextAxis == CallSweetSpots \/ CallTierTransitions \/ CallSegmentBests

SpecAxis == InitAxis /\ [][NextAxis]_vars

(***************************************************************************)
(* The trap detector called on a candidate list                            *)
(***************************************************************************)
\* Scenario B of the specification
ScenarioB ==
    << [name |-> "A", cost |-> 100, perf |-> 10],
       [name |-> "B", cost |-> 101, perf |-> 11] >>

\* candidates whose criterion values differ by less than, exactly and more
\* than 10% of the larger one (10/11, 9/10, 9/11), at costs exactly 5% apart
\* (95/100), between 5% and 10% apart (100/110) and further apart (95/110)
TrapCandidates ==
    {[cost |-> c, perf |-> p, ram |-> r] : c \in {95, 100, 110}, p \in {9, 10, 11}, r \in {9, 11}}

TrapCorners ==
    {[cost |-> 100, perf |-> 9, ram |-> 9], [cost |-> 101, perf |-> 11, ram |-> 11],
     [cost |-> 100, perf |-> 11, ram |-> 11], [cost |-> 110, perf |-> 11]}

\* cost, perf and ram in every direction, and perf and ram alone
TrapCriteriaLists ==
    {<<Criterion("cost", d1, 1), Criterion("perf", d2, 1), Criterion("ram", d3, 1)>> :
        d1 \in Directions, d2 \in Directions, d3 \in Directions}
    \cup {<<Criterion("perf", d2, 1), Criterion("ram", d3, 1)>> :
        d2 \in Directions, d3 \in Directions}

TrapTolerances == {Frac(5, 100), Frac(1, 10)}

InitTraps ==
    /\ \/ /\ configs \in ListsUpTo(TrapCandidates, MaxN)
                         \cup [1..(MaxN + 1) -> TrapCorners]
          /\ criteria \in TrapCriteriaLists
       \/ /\ configs = ScenarioB
          /\ criteria = MinCostMaxPerf
    /\ ret = NoCall

\* detect_traps(configs, criteria, sort_field, tolerance, name_field)
CallTraps ==
    \E sf \in {NoAxis, "cost"}, tol \in TrapTolerances :
        /\ ret = NoCall
        /\ ret' = [op |-> "detect_traps", sort_field |-> sf, tolerance |-> tol]
                  @@ Ok(detect_traps(configs, criteria, sf, tol))
        /\ UNCHANGED <<configs, criteria>>

NextTraps == CallTraps

SpecTraps == InitTraps /\ [][NextTraps]_vars

(***************************************************************************)
(* The engine's entry point                                                *)
(***************************************************************************)
\* the candidates of the analysed lists: unnamed with cost 0, 1 or MaxVal and
\* perf 1 or MaxVal, and one that carries a name
AnalyzeCandidates ==
    {[cost |-> c, perf |-> q] : c \in {0, 1, MaxVal}, q \in {1, MaxVal}}
    \cup {[name |-> "A", cost |-> 1, perf |-> MaxVal]}

\* trap proximity tolerances: the default 0.05
Tolerances == {Frac(5, 100)}

\* sweet-spot thresholds passed to analyze: the default 0.85
AnalyzeThresholds == {Frac(85, 100)}

Init ==
    /\ \/ /\ configs \in ListsUpTo(AnalyzeCandidates, MaxN)
          /\ criteria \in CriteriaLists(DomFields)
       \/ /\ configs \in [1..2 -> Corners(AllFields)]
          /\ criteria \in UnitThreeCriteriaLists
       \/ /\ configs = ScenarioA
          /\ criteria = MinCostMaxPerf
    /\ ret = NoCall

\* what a call of analyze gave its caller: the result or the exception
ResultOf(r) ==
    IF r.raised = "none" THEN [raised |-> "none", value |-> r.value]
    ELSE [raised |-> r.raised]

\* analyze(configs, criteria, sort_field, sort_direction, threshold, tolerance):
\* the names are filled in place before anything can raise.  A later run
\* takes the arguments of the first and the candidate list as the run before
\* left it.  ret records the list as passed (input) and what the run before
\* gave (previous).
Analyze ==
    \E sf \in {NoAxis, "cost"}, sd \in SortDirections,
       th \in AnalyzeThresholds, tol \in Tolerances :
        /\ ret.op = "analyze" =>
               /\ ret.run < MaxRuns
               /\ sf = ret.sort_field
               /\ sd = ret.sort_direction
               /\ th = ret.threshold
               /\ tol = ret.tolerance
        /\ configs' = fill_names(configs)
        /\ ret' = [op |-> "analyze", sort_field |-> sf, sort_direction |-> sd,
                   threshold |-> th, tolerance |-> tol,
                   input |-> configs,
                   run |-> IF ret.op = "analyze" THEN ret.run + 1 ELSE 1,
                   previous |-> IF ret.op = "analyze" THEN ResultOf(ret) ELSE NoCall]
                  @@ analyze(fill_names(configs), criteria, sf, sd, th, tol)
        /\ UNCHANGED criteria

Next == Analyze

Spec == Init /\ [][Next]_vars

(***************************************************************************)
(* Normalization and the weighted ranking called on a candidate list       *)
(***************************************************************************)
\* the candidates of the ranked lists: cost and perf valued 0, 1 or MaxVal, or
\* some keys absent and the others valued MaxVal
RankingCandidates ==
    [DomFields -> {0, 1, MaxVal}] \cup UNION {[S -> {MaxVal}] : S \in (SUBSET DomFields) \ {DomFields}}

InitRanking ==
    /\ \/ /\ configs \in ListsUpTo(RankingCandidates, MaxN)
                         \cup [1..(MaxN + 1) -> Corners(DomFields)]
          /\ criteria \in CriteriaLists(DomFields)
       \/ /\ configs \in [1..2 -> Corners(AllFields)]
          /\ criteria \in ThreeCriteriaLists
       \/ /\ configs \in Ladders
          /\ criteria \in WeightedCriteriaLists(DomFields)
    /\ ret = NoCall

\* _normalize_value(cfg.get(name, 0), mn, mx, direction) as the engine calls
\* it: on candidate i and criterion k, with mn and mx from _build_min_max
CallNormalize ==
    \E i \in 0..(Len(configs) - 1), k \in 1..Len(criteria) :
        LET mm == _build_min_max(configs, criteria).value[criteria[k].name] IN
        /\ ret = NoCall
        /\ ret' = [op |-> "_normalize_value", index |-> i, criterion |-> k,
                   min_val |-> mm[1], max_val |-> mm[2], raised |-> "none",
                   value |-> _normalize_value(Get(configs[i + 1], criteria[k].name),
                                              mm[1], mm[2], criteria[k].direction)]
        /\ UNCHANGED <<configs, criteria>>

\* compute_weighted_ranking(configs, criteria, name_field)
CallWeightedRanking ==
    /\ ret = NoCall
    /\ ret' = [op |-> "compute_weighted_ranking"]
              @@ compute_weighted_ranking(configs, criteria)
    /\ UNCHANGED <<configs, criteria>>

NextRanking == CallNormalize \/ CallWeightedRanking

SpecRanking == InitRanking /\ [][NextRanking]_vars

(***************************************************************************)
(* Properties of the dominance engine (checked under SpecDominance)        *)
(***************************************************************************)
N == Len(configs)
Indices == 0..(N - 1)
Cfg(i) == configs[i + 1]

\* the 'index' fields of a dominated report
DominatedIndices(report) == {report[k].index : k \in 1..Len(report)}

\* the indices cited in a dominated_by list, in order
DominatorIndices(entry) ==
    [k \in 1..Len(entry.dominated_by) |-> entry.dominated_by[k].index]

\* the brute-force reference: no other candidate dominates candidate i
NotDominated(i) ==
    \A j \in Indices \ {i} : ~ is_dominated(Cfg(i), Cfg(j), criteria)

\* candidates i and j agree on every criterion
SameOnCriteria(i, j) ==
    \A k \in 1..Len(criteria) :
        Get(Cfg(i), criteria[k].name) = Get(Cfg(j), criteria[k].name)

\* C1: for a non-empty criteria list, the front returned by
\* compute_pareto_front and the 'index' fields of compute_dominated run on
\* that front are disjoint, cover 0..n-1, and no index appears twice.
C1_FrontDominatedPartition ==
    (ret.op = "compute_dominated" /\ criteria # <<>>) =>
        LET F == Elems(ret.front)
            D == DominatedIndices(ret.value)
        IN /\ F \cap D = {}
           /\ F \cup D = Indices
           /\ Cardinality(F) = Len(ret.front)
           /\ Cardinality(D) = Len(ret.value)

C1_Witness ==
    /\ ret.op = "compute_dominated"
    /\ Len(criteria) = 2
    /\ N >= 3
    /\ Len(ret.front) >= 1
    /\ Len(ret.value) >= 1

\* C2: compute_pareto_front returns index i exactly when no index j # i has
\* is_dominated(configs[i], configs[j], criteria), missing fields read as 0.
C2_FrontIsBruteForce ==
    ret.op = "compute_pareto_front" =>
        \A i \in Indices : (i \in Elems(ret.value)) <=> NotDominated(i)

C2_Witness ==
    /\ ret.op = "compute_pareto_front"
    /\ N >= 2
    /\ \E i \in Indices : DOMAIN Cfg(i) # DomFields
    /\ \E i \in Indices : i \in Elems(ret.value)
    /\ \E i \in Indices : i \notin Elems(ret.value)

\* C3: is_dominated is irreflexive and antisymmetric for every criteria list:
\* is_dominated(a, a) is false, and is_dominated(a, b) and is_dominated(b, a)
\* are never both true.
C3_DominanceIrreflexiveAntisymmetric ==
    ret.op = "is_dominated" =>
        /\ ret.a = ret.b => ~ ret.value
        /\ ret.value => ~ is_dominated(Cfg(ret.b), Cfg(ret.a), criteria)

C3_Witness ==
    /\ ret.op = "is_dominated"
    /\ ret.value
    /\ \E p, q \in 1..Len(criteria) :
           criteria[p].direction = "maximize" /\ criteria[q].direction = "minimize"

AtScenarioA ==
    /\ configs = ScenarioA
    /\ criteria = MinCostMaxPerf
    /\ ret.op = "compute_dominated"

\* C4 as stated: in Scenario A the front is exactly {A, B}, C is in the
\* dominated set and C's dominated_by list includes both A and B.
C4_ScenarioA_AsStated ==
    AtScenarioA =>
        /\ Elems(ret.front) = {0, 1}
        /\ \E k \in 1..Len(ret.value) :
               /\ ret.value[k].index = 2
               /\ {0, 1} \subseteq Elems(DominatorIndices(ret.value[k]))

\* C4 as amended: in Scenario A neither A nor B dominates C (A has the lower
\* perf, B the higher cost), so the front is A, B, C and the dominated set is
\* empty.
C4_ScenarioA_AllOnFront ==
    AtScenarioA => (ret.front = <<0, 1, 2>> /\ ret.value = <<>>)

C4_Witness == AtScenarioA /\ Len(ret.front) = 3

\* the candidates with the highest perf
TopPerf == {i \in Indices : \A j \in Indices : Get(Cfg(j), "perf") <= Get(Cfg(i), "perf")}

AtSingleCriterion ==
    /\ criteria = MaxPerfOnly
    /\ ret.op = "compute_dominated"

\* C9 as stated (for non-empty candidate sets): with maximize perf as the only
\* criterion the front is one candidate, it has the highest perf, and every
\* other candidate is dominated with that candidate as its only dominator.
C9_SingleCriterion_AsStated ==
    (AtSingleCriterion /\ N >= 1) =>
        /\ Len(ret.front) = 1
        /\ ret.front[1] \in TopPerf
        /\ DominatedIndices(ret.value) = Indices \ {ret.front[1]}
        /\ \A k \in 1..Len(ret.value) :
               DominatorIndices(ret.value[k]) = <<ret.front[1]>>

\* C9 as amended: with maximize perf as the only criterion the front is
\* exactly the set of candidates that attain the highest perf (several on a
\* tie), every other candidate is in the dominated set, its dominators are
\* the first (up to 3) front members, and when one candidate alone attains
\* the highest perf it is the whole front and the only dominator.
C9_SingleCriterion_TopPerfFront ==
    AtSingleCriterion =>
        /\ Elems(ret.front) = TopPerf
        /\ DominatedIndices(ret.value) = Indices \ TopPerf
        /\ \A k \in 1..Len(ret.value) :
               LET d == DominatorIndices(ret.value[k])
               IN /\ Len(d) >= 1
                  /\ d = SubSeq(ret.front, 1, Len(d))
                  /\ Len(d) = IF Len(ret.front) < 3 THEN Len(ret.front) ELSE 3
        /\ Cardinality(TopPerf) = 1 =>
               /\ Len(ret.front) = 1
               /\ \A k \in 1..Len(ret.value) :
                      DominatorIndices(ret.value[k]) = <<ret.front[1]>>

C9_Witness ==
    /\ AtSingleCriterion
    /\ N >= 3
    /\ Len(ret.front) = 1
    /\ Len(ret.value) = N - 1

\* C10: when all candidates are identical on all criteria every index is on
\* the front and the dominated set is empty; two candidates identical on all
\* criteria never dominate one another, and both stay in the result (on the
\* front together or in the dominated set together).
C10_IdenticalCandidates ==
    /\ (ret.op = "compute_dominated" /\ \A i, j \in Indices : SameOnCriteria(i, j)) =>
           (ret.front = Range(N) /\ ret.value = <<>>)
    /\ (ret.op = "is_dominated" /\ SameOnCriteria(ret.a, ret.b)) => ~ ret.value
    /\ ret.op = "compute_dominated" =>
           \A i, j \in Indices :
               SameOnCriteria(i, j) =>
                   (i \in Elems(ret.front) <=> j \in Elems(ret.front))

C10_Witness ==
    /\ ret.op = "compute_dominated"
    /\ N >= 2
    /\ Len(criteria) = 2
    /\ \A i, j \in Indices : SameOnCriteria(i, j)
    /\ Len(ret.front) = N

\* candidate j is strictly better than candidate i on criterion k
StrictlyBetter(k, j, i) ==
    LET vi == Get(Cfg(i), criteria[k].name)
        vj == Get(Cfg(j), criteria[k].name)
    IN IF criteria[k].direction = "maximize" THEN vj > vi ELSE vj < vi

\* candidate j dominates candidate i: nowhere worse, somewhere strictly better
Dominates(j, i) ==
    /\ \A k \in 1..Len(criteria) : ~ StrictlyBetter(k, i, j)
    /\ \E k \in 1..Len(criteria) : StrictlyBetter(k, j, i)

\* C19: for each non-front index compute_dominated lists at most 3
\* dominators: the first (up to 3) members of the front, in front order,
\* that dominate it; the advantages of a dominator name exactly the criteria
\* on which it is strictly better, with the two values.
C19_FirstThreeDominators ==
    ret.op = "compute_dominated" =>
        \A e \in 1..Len(ret.value) :
            LET i == ret.value[e].index
                by == ret.value[e].dominated_by
                doms == SelectSeq(ret.front, LAMBDA j : Dominates(j, i))
                cap == IF Len(doms) < DominatorCap THEN Len(doms) ELSE DominatorCap
            IN /\ Len(by) = cap
               /\ \A d \in 1..Len(by) :
                      LET j == by[d].index
                          won == SelectSeq([k \in 1..Len(criteria) |-> k],
                                           LAMBDA k : StrictlyBetter(k, j, i))
                      IN /\ j = doms[d]
                         /\ by[d].advantages =
                                [a \in 1..Len(won) |->
                                    [field |-> criteria[won[a]].name,
                                     from |-> Get(Cfg(i), criteria[won[a]].name),
                                     to |-> Get(Cfg(j), criteria[won[a]].name)]]

\* a candidate with more than 3 dominators on the front, not all alike
C19_Witness ==
    /\ ret.op = "compute_dominated"
    /\ \E e \in 1..Len(ret.value) :
           /\ Cardinality({p \in 1..Len(ret.front) :
                               Dominates(ret.front[p], ret.value[e].index)}) > DominatorCap
           /\ Len(ret.value[e].dominated_by) = DominatorCap
           /\ Len(ret.value[e].dominated_by[1].advantages) = 2
           /\ ret.value[e].dominated_by[1].advantages
                  # ret.value[e].dominated_by[2].advantages

\* C28: every entry of the dominated report has a non-empty dominated_by
\* list whose members are on the front and dominate the entry's candidate;
\* every candidate that some candidate dominates is dominated by a candidate
\* that nothing dominates.
C28_DominatedByFrontMember ==
    ret.op = "compute_dominated" =>
        /\ \A e \in 1..Len(ret.value) :
               LET i == ret.value[e].index
                   by == ret.value[e].dominated_by
               IN /\ by # <<>>
                  /\ \A d \in 1..Len(by) :
                         /\ by[d].index \in Elems(ret.front)
                         /\ NotDominated(by[d].index)
                         /\ Dominates(by[d].index, i)
        /\ \A i \in Indices :
               ~ NotDominated(i) =>
                   \E j \in Indices : NotDominated(j) /\ Dominates(j, i)

\* a reported candidate that another dominated candidate dominates as well
C28_Witness ==
    /\ ret.op = "compute_dominated"
    /\ \E e \in 1..Len(ret.value) :
           LET i == ret.value[e].index
           IN /\ \E m \in Indices : ~ NotDominated(m) /\ Dominates(m, i)
              /\ ret.value[e].dominated_by # <<>>

\* the pairs of front members in the order of the pairwise double loop
FrontPairs(front) ==
    LET n == Len(front)
        all == [k \in 1..(n * n) |-> <<((k - 1) \div n) + 1, ((k - 1) % n) + 1>>]
        ordered == SelectSeq(all, LAMBDA p : p[1] < p[2])
    IN [k \in 1..Len(ordered) |-> <<front[ordered[k][1]], front[ordered[k][2]]>>]

\* the names of the criteria on which candidate a is strictly better than b
BetterAt(a, b) ==
    LET won == SelectSeq([k \in 1..Len(criteria) |-> k],
                         LAMBDA k : StrictlyBetter(k, a, b))
    IN [k \in 1..Len(won) |-> criteria[won[k]].name]

\* C29: the pairwise list of compute_front_tradeoffs on the Pareto front has
\* one entry, in loop order, for every pair of front members that differ on
\* some criterion and none for a pair equal on every criterion; every entry
\* has a non-empty a_better_at and a non-empty b_better_at.
C29_PairwiseTwoSided ==
    (ret.op = "compute_front_tradeoffs" /\ Len(ret.front) >= 2) =>
        LET pw == ret.value[1].pairwise
            kept == SelectSeq(FrontPairs(ret.front),
                              LAMBDA p : ~ SameOnCriteria(p[1], p[2]))
        IN /\ Len(pw) = Len(kept)
           /\ \A k \in 1..Len(pw) :
                  /\ pw[k].a = NameOf(configs, kept[k][1])
                  /\ pw[k].b = NameOf(configs, kept[k][2])
                  /\ pw[k].a_better_at = BetterAt(kept[k][1], kept[k][2])
                  /\ pw[k].b_better_at = BetterAt(kept[k][2], kept[k][1])
                  /\ pw[k].a_better_at # <<>>
                  /\ pw[k].b_better_at # <<>>

\* a front of at least three members of which some pairs trade off and some
\* are equal on every criterion
C29_Witness ==
    /\ ret.op = "compute_front_tradeoffs"
    /\ Len(ret.front) >= 3
    /\ Len(criteria) = 2
    /\ Len(ret.value[1].pairwise) >= 2
    /\ Len(ret.value[1].pairwise) < Len(FrontPairs(ret.front))

(***************************************************************************)
(* Properties of the gain functions (checked under SpecGain)               *)
(***************************************************************************)
GainOps == {"_metric_ratio", "compute_marginal_gains", "compute_gain_score"}

\* some criterion value, or the axis value, of cfg_from or cfg_to is 0
PairHasZero ==
    \/ \E k \in 1..Len(criteria), c \in 1..2 : Get(configs[c], criteria[k].name) = 0
    \/ /\ ret.op = "compute_gain_score"
       /\ \E c \in 1..2 : Get(configs[c], ret.sort_field) = 0

\* C7: on a pair of candidates with a zero criterion or axis value, and for
\* both axis directions, compute_marginal_gains, _metric_ratio and
\* compute_gain_score return a value and raise no division-by-zero error.
C7_ZeroDenominatorsNeverRaise ==
    (ret.op \in GainOps /\ PairHasZero) => ret.raised = "none"

\* compute_gain_score ran on a pair that does not move forward on the axis
NotForward ==
    /\ ret.op = "compute_gain_score"
    /\ LET s_from == Get(configs[1], ret.sort_field)
           s_to == Get(configs[2], ret.sort_field)
       IN \/ ret.sort_direction = "asc" /\ s_to <= s_from
          \/ ret.sort_direction = "desc" /\ s_to >= s_from

\* C12: compute_gain_score returns exactly 0.0 for every pair that does not
\* move forward along the axis (asc: to <= from, desc: to >= from), whatever
\* the other criteria and the weights.
C12_NoGainMovingBackward ==
    NotForward => (ret.raised = "none" /\ ret.value = Int2F(0))

\* a backward move on a descending axis with a non-zero axis value, a
\* criterion that improves and weights that differ
C12_Witness ==
    /\ NotForward
    /\ ret.sort_direction = "desc"
    /\ Get(configs[1], ret.sort_field) > 0
    /\ Get(configs[2], ret.sort_field) > Get(configs[1], ret.sort_field)
    /\ \E k \in 1..Len(criteria) :
           /\ criteria[k].name # ret.sort_field
           /\ criteria[k].direction = "maximize"
           /\ criteria[k].weight = 2
           /\ Get(configs[2], criteria[k].name) > Get(configs[1], criteria[k].name)
    /\ ret.value = Int2F(0)

(***************************************************************************)
(* Properties of the axis analyses (checked under SpecAxis)                *)
(***************************************************************************)
AxisOps == {"detect_sweet_spots", "compute_tier_transitions", "compute_segment_bests"}

\* one of the axis analyses ran on n >= 1 candidates that all have the same
\* value on the axis
AtZeroAxisRange ==
    /\ ret.op \in AxisOps
    /\ N >= 1
    /\ \A i, j \in Indices : Get(Cfg(i), ret.sort_field) = Get(Cfg(j), ret.sort_field)

\* C8 as stated: with a zero axis range detect_sweet_spots,
\* compute_tier_transitions and compute_segment_bests return an empty list
\* and do not raise, for every threshold and both axis directions.
C8_ZeroRangeEmpty_AsStated ==
    AtZeroAxisRange => (ret.raised = "none" /\ ret.value = <<>>)

\* C8 as amended: with a zero axis range none of the three raises, for both
\* axis directions; compute_tier_transitions and compute_segment_bests return
\* an empty list; detect_sweet_spots returns an empty list for every
\* threshold above 0, and for a threshold of 0 it reports every candidate
\* after the first in axis order, each with gain score 0.
C8_ZeroRangeEmpty_PositiveThreshold ==
    AtZeroAxisRange =>
        /\ ret.raised = "none"
        /\ ret.op # "detect_sweet_spots" => ret.value = <<>>
        /\ ret.op = "detect_sweet_spots" =>
               IF FLess(Int2F(0), ret.threshold)
               THEN ret.value = <<>>
               ELSE /\ Len(ret.value) = N - 1
                    /\ \A k \in 1..Len(ret.value) :
                           FEq(ret.value[k].gain_score, Int2F(0))

C8_Witness ==
    /\ AtZeroAxisRange
    /\ ret.op = "detect_sweet_spots"
    /\ ret.sort_direction = "desc"
    /\ ret.threshold = Frac(1, 10000)
    /\ N >= 3
    /\ Get(Cfg(0), "cost") > 0
    /\ ret.value = <<>>

\* the axis value of candidate i in the call recorded in ret
AxisValue(i) == Get(Cfg(i), ret.sort_field)

\* the observed axis range
AxisRange == sort_range_of(configs, ret.sort_field)

\* candidate i comes before candidate j in axis order: by axis value in the
\* direction of the call, candidates of equal axis value in input order
SortedBefore(i, j) ==
    IF AxisValue(i) = AxisValue(j) THEN i < j
    ELSE IF ret.sort_direction = "desc" THEN AxisValue(i) > AxisValue(j)
    ELSE AxisValue(i) < AxisValue(j)

\* candidate j is not the first one in axis order
NotFirstInAxisOrder(j) == \E i \in Indices : SortedBefore(i, j)

\* the axis gap between candidates i and j is at least 3% of the axis range
GapAtLeastThreePercent(i, j) == 100 * Abs(AxisValue(j) - AxisValue(i)) >= 3 * AxisRange

\* candidate i is an earlier-sorted candidate that p is compared with
Comparable(i, p) == SortedBefore(i, p) /\ GapAtLeastThreePercent(i, p)

\* the gain score of the move from candidate i to candidate p
GainScore(i, p) == compute_gain_score(Cfg(i), Cfg(p), criteria, ret.sort_field, ret.sort_direction)

\* every gain score that candidate p is compared on is defined
GainsDefined(p) == \A h \in Indices : Comparable(h, p) => ~ IsRaised(GainScore(h, p))

\* candidate i achieves the maximum gain score among the candidates p is
\* compared with, and is the earliest-sorted one that does
BestComparator(i, p) ==
    /\ GainsDefined(p)
    /\ Comparable(i, p)
    /\ \A h \in Indices :
           Comparable(h, p) =>
               /\ FLeq(GainScore(h, p).value, GainScore(i, p).value)
               /\ SortedBefore(h, i) => FLess(GainScore(h, p).value, GainScore(i, p).value)

\* the call returned a list with an entry for candidate p
Emitted(p) ==
    /\ ret.raised = "none"
    /\ \E k \in 1..Len(ret.value) : ret.value[k].config_index = p

\* C21: detect_sweet_spots emits a sweet spot for a candidate p that is not
\* first in axis order if and only if the maximum gain score over the
\* earlier-sorted candidates whose axis gap is at least 3% of the range is
\* >= threshold; the entry cites the earliest-sorted comparator achieving
\* the maximum and that maximum as gain_score; each candidate appears at
\* most once and the list is ordered by gain_score non-increasing.
C21_SweetSpotIffBestGainReachesThreshold ==
    ret.op = "detect_sweet_spots" =>
        /\ \A p \in Indices :
               NotFirstInAxisOrder(p) =>
                   (Emitted(p) <=> \E i \in Indices :
                                       /\ BestComparator(i, p)
                                       /\ FLeq(ret.threshold, GainScore(i, p).value))
        /\ ret.raised = "none" =>
               /\ \A k \in 1..Len(ret.value) :
                      /\ BestComparator(ret.value[k].compared_to_index, ret.value[k].config_index)
                      /\ FEq(ret.value[k].gain_score,
                             GainScore(ret.value[k].compared_to_index, ret.value[k].config_index).value)
               /\ \A k, m \in 1..Len(ret.value) :
                      k < m => /\ ret.value[k].config_index # ret.value[m].config_index
                               /\ FLeq(ret.value[m].gain_score, ret.value[k].gain_score)

\* compute_segment_bests returned on candidates with a non-zero axis range
SegmentsReported ==
    /\ ret.op = "compute_segment_bests"
    /\ ret.raised = "none"
    /\ N >= 1
    /\ AxisRange # 0

\* the greatest axis value
AxisMax == CHOOSE v \in {AxisValue(i) : i \in Indices} : \A j \in Indices : AxisValue(j) <= v

\* candidate i lies in the bin of the reported segment seg: low <= value <
\* high, the last bin also including the upper bound
InBinOf(seg, i) ==
    /\ FLeq(seg.range_low, Int2F(AxisValue(i)))
    /\ \/ FLess(Int2F(AxisValue(i)), seg.range_high)
       \/ (FEq(seg.range_high, Int2F(AxisMax)) /\ AxisValue(i) = AxisMax)

RECURSIVE ItemCountSum(_)
\* the sum of the item_count values of a list of segments
ItemCountSum(segs) ==
    IF segs = <<>> THEN 0 ELSE Head(segs).item_count + ItemCountSum(Tail(segs))

\* C22: whenever the axis range is non-zero, compute_segment_bests counts
\* every candidate in exactly one of the equal-width bins (low <= value <
\* high, the last bin also including the upper bound): each reported
\* segment counts the candidates of its bin and the item_count values sum
\* to n.
C22_EveryCandidateInOneSegment ==
    SegmentsReported =>
        /\ ItemCountSum(ret.value) = N
        /\ \A k \in 1..Len(ret.value) :
               ret.value[k].item_count
                   = Cardinality({i \in Indices : InBinOf(ret.value[k], i)})

\* the criteria other than the axis
NonAxisCriteria == SelectSeq(criteria, LAMBDA c : c.name # ret.sort_field)

\* the candidates of the bin of the reported segment seg
BinMembers(seg) == {i \in Indices : InBinOf(seg, i)}

\* the local Pareto front of a set of candidates over the non-axis criteria:
\* the members that no other member dominates on those criteria
LocalFront(members) ==
    {i \in members :
        \A j \in members \ {i} : ~ is_dominated(Cfg(i), Cfg(j), NonAxisCriteria)}

\* the composite score of candidate i over the non-axis criteria, or over
\* all criteria when the axis is the only criterion
SegmentScore(i) ==
    _compute_composite_score(Cfg(i),
                             IF NonAxisCriteria # <<>> THEN NonAxisCriteria ELSE criteria,
                             _build_min_max(configs, criteria).value)

\* C23: for every reported segment, best_index is on the bin's local Pareto
\* front over the non-axis criteria, has the highest composite score among
\* the local-front members, and alternatives are exactly the other
\* local-front members of the bin.
C23_SegmentBestOnLocalFront ==
    SegmentsReported =>
        \A k \in 1..Len(ret.value) :
            LET seg == ret.value[k]
                front == LocalFront(BinMembers(seg))
            IN /\ seg.best_index \in front
               /\ \A j \in front : FLeq(SegmentScore(j), SegmentScore(seg.best_index))
               /\ Elems(seg.alternatives) = {NameOf(configs, j) : j \in front \ {seg.best_index}}
               /\ Len(seg.alternatives) = Cardinality(front) - 1

\* compute_tier_transitions returned on at least two candidates with a
\* non-zero axis range
TiersReported ==
    /\ ret.op = "compute_tier_transitions"
    /\ ret.raised = "none"
    /\ N >= 2
    /\ AxisRange # 0

\* min(15, n)
TargetBuckets == IF N < TargetBucketCap THEN N ELSE TargetBucketCap

\* the band of candidate i, the bands being AxisRange / TargetBuckets wide
Band(i) == (AxisValue(i) * TargetBuckets) \div AxisRange

\* candidate i is the first candidate of its band in axis order
FirstOfBand(i) == \A j \in Indices : SortedBefore(j, i) => Band(j) # Band(i)

\* the representatives the call chose
Representatives ==
    representative_loop(configs, ret.sort_field, AxisRange,
                        sorted_indices_of(configs, ret.sort_field, ret.sort_direction = "desc"),
                        1, {}, <<>>)

\* the pairs of consecutive elements of reps whose axis delta is at least
\* 3% of the range, in order
KeptPairs(reps) ==
    LET pairs == [k \in 1..(Len(reps) - 1) |-> <<reps[k], reps[k + 1]>>]
    IN SelectSeq(pairs, LAMBDA q : GapAtLeastThreePercent(q[1], q[2]))

\* reps are the first candidates of the occupied bands, in axis order, and
\* the transitions are the kept pairs of reps
OneRepresentativePerBand(reps) ==
    /\ Elems(reps) = {i \in Indices : FirstOfBand(i)}
    /\ \A a, b \in 1..Len(reps) : a < b => SortedBefore(reps[a], reps[b])
    /\ [k \in 1..Len(ret.value) |-> <<ret.value[k].from_idx, ret.value[k].to_idx>>] = KeptPairs(reps)

JumpRatio(t, c) == compute_marginal_gains(Cfg(t.from_idx), Cfg(t.to_idx), criteria)[c].ratio

\* criterion c is listed in the key_jumps of transition t
ListedInKeyJumps(t, c) == \E m \in 1..Len(t.key_jumps) : t.key_jumps[m][1] = criteria[c].name

\* C25: a criterion is listed in key_jumps of a transition exactly when its
\* marginal-gain ratio (to/from) is > 1.2 or < 0.833, and the transition's
\* gain_score equals compute_gain_score of the same from/to pair.
C25_KeyJumpsOutsideBand ==
    TiersReported =>
        \A k \in 1..Len(ret.value) :
            /\ \A c \in 1..Len(criteria) :
                   ListedInKeyJumps(ret.value[k], c)
                       <=> \/ FLess(Frac(12, 10), JumpRatio(ret.value[k], c))
                           \/ FLess(JumpRatio(ret.value[k], c), Frac(833, 1000))
            /\ FEq(ret.value[k].gain_score,
                   GainScore(ret.value[k].from_idx, ret.value[k].to_idx).value)

(***************************************************************************)
(* Properties of the trap detector (checked under SpecTraps)               *)
(***************************************************************************)
\* detect_traps ran on Scenario B with cost as the axis and tolerance 0.05
AtScenarioB ==
    /\ ret.op = "detect_traps"
    /\ configs = ScenarioB
    /\ criteria = MinCostMaxPerf
    /\ ret.sort_field = "cost"
    /\ ret.tolerance = Frac(5, 100)

\* C11: in Scenario B the perf change 10 -> 11 is measured as exactly a 10%
\* relative gain, at the edge of the strict "> 0.1" test, so perf does not
\* count as better and no trap is reported.
C11_ScenarioB_TenPercentBoundary ==
    AtScenarioB =>
        /\ FEq(relative_margin(Get(Cfg(1), "perf") - Get(Cfg(0), "perf"),
                               Get(Cfg(0), "perf"), Get(Cfg(1), "perf")),
               Frac(1, 10))
        /\ ~ counts_for_j(configs, criteria[2], 0, 1)
        /\ ret.value = <<>>

Larger(a, b) == IF a > b THEN a ELSE b

\* the criteria detect_traps compares: all of them, or all but the axis
ComparedCriteria ==
    {k \in 1..Len(criteria) : ret.sort_field = NoAxis \/ criteria[k].name # ret.sort_field}

\* candidate y beats candidate x on criterion k by more than 10% of the
\* larger of the two values
BetterByTenPercent(k, y, x) ==
    LET vy == Get(Cfg(y), criteria[k].name)
        vx == Get(Cfg(x), criteria[k].name)
    IN IF criteria[k].direction = "maximize"
       THEN 10 * (vy - vx) > Larger(vy, vx)
       ELSE 10 * (vx - vy) > Larger(vy, vx)

\* the axis values of i and j differ by at most the tolerance, relative to
\* the larger one
CloseOnAxis(i, j) ==
    LET vi == Get(Cfg(i), ret.sort_field)
        vj == Get(Cfg(j), ret.sort_field)
    IN Abs(vi - vj) * ret.tolerance.den <= ret.tolerance.num * Larger(vi, vj)

\* the trap condition of the pair (i, j)
TrapCondition(i, j) ==
    /\ i # j
    /\ ret.sort_field # NoAxis => CloseOnAxis(i, j)
    /\ Cardinality({k \in ComparedCriteria : BetterByTenPercent(k, j, i)}) >= 2
    /\ \A k \in ComparedCriteria : ~ BetterByTenPercent(k, i, j)

\* C18: detect_traps reports each index at most once and in ascending
\* order of i, and the dominator cited for trap i is the lowest j # i that
\* satisfies the trap condition.
C18_TrapsFirstDominatorAscending ==
    ret.op = "detect_traps" =>
        /\ \A k \in 1..Len(ret.value) :
               LET i == ret.value[k].index
                   j == ret.value[k].dominated_by_index
               IN /\ i \in Indices /\ j \in Indices
                  /\ TrapCondition(i, j)
                  /\ \A m \in 0..(j - 1) : ~ TrapCondition(i, m)
        /\ \A k \in 1..(Len(ret.value) - 1) :
               ret.value[k].index < ret.value[k + 1].index

\* a trap with two candidates satisfying the trap condition, found with an axis
C18_Witness ==
    /\ ret.op = "detect_traps"
    /\ ret.sort_field = "cost"
    /\ \E k \in 1..Len(ret.value) :
           Cardinality({j \in Indices : TrapCondition(ret.value[k].index, j)}) >= 2

\* detect_traps ran without an axis
AxislessTraps == ret.op = "detect_traps" /\ ret.sort_field = NoAxis

\* the indices reported as traps
TrapIndices == {ret.value[k].index : k \in 1..Len(ret.value)}

FieldValues(field) == {Get(Cfg(i), field) : i \in Indices}

C17_RankingOrder ==
    ret.op = "compute_weighted_ranking" =>
        /\ ret.raised = "none" <=> ~ (N = 0 /\ criteria # <<>>)
        /\ ret.raised = "none" =>
               LET r == ret.value IN
               /\ Len(r) = N
               /\ {r[k].index : k \in 1..Len(r)} = Indices
               /\ \A k \in 1..Len(r) : r[k].rank = k
               /\ \A k \in 1..(Len(r) - 1) :
                      /\ FLeq(r[k + 1].composite_score, r[k].composite_score)
                      /\ FEq(r[k + 1].composite_score, r[k].composite_score)
                             => r[k].index < r[k + 1].index

\* a ranking of three candidates with a tie and a strict step
C17_Witness ==
    /\ ret.op = "compute_weighted_ranking"
    /\ ret.raised = "none"
    /\ Len(ret.value) >= 3
    /\ FEq(ret.value[1].composite_score, ret.value[2].composite_score)
    /\ FLess(ret.value[3].composite_score, ret.value[2].composite_score)
    /\ ret.value[1].index # 0

\* the composite score the ranking reports for candidate i
ReportedScore(i) ==
    LET k == CHOOSE k \in 1..Len(ret.value) : ret.value[k].index = i
    IN ret.value[k].composite_score

\* C30: for criteria with positive weights, in the result of
\* compute_weighted_ranking a candidate that dominates another has a
\* composite score at least as high, and every composite score lies in
\* [0, 1].
C30_CompositeMonotoneInDominance ==
    (/\ ret.op = "compute_weighted_ranking"
     /\ ret.raised = "none"
     /\ \A k \in 1..Len(criteria) : criteria[k].weight > 0) =>
        /\ \A i \in Indices :
               /\ FLeq(Int2F(0), ReportedScore(i))
               /\ FLeq(ReportedScore(i), Int2F(1))
               /\ FEq(ReportedScore(i),
                      _compute_composite_score(Cfg(i), criteria,
                          _build_min_max(configs, criteria).value))
        /\ \A i, j \in Indices :
               Dominates(j, i) => FLeq(ReportedScore(i), ReportedScore(j))

\* three candidates ranked on two criteria of unequal weight, one dominating
\* another with both scores strictly between 0 and 1
C30_Witness ==
    /\ ret.op = "compute_weighted_ranking"
    /\ ret.raised = "none"
    /\ N >= 3
    /\ Len(criteria) = 2
    /\ criteria[1].weight # criteria[2].weight
    /\ \E i, j \in Indices :
           /\ Dominates(j, i)
           /\ FLess(Int2F(0), ReportedScore(i))
           /\ FLess(ReportedScore(i), ReportedScore(j))
           /\ FLess(ReportedScore(j), Int2F(1))

(***************************************************************************)
(* Properties of the entry point (checked under Spec)                      *)
(***************************************************************************)
\* C5: analyze on an empty candidate list with a non-empty criteria list
\* returns a result without raising (total 0, pareto_count 0, pareto_ratio 0,
\* empty front and dominated lists, every sub-analysis empty), with and
\* without an ordering axis.
C5_EmptyCandidatesReturnEmpty ==
    (ret.op = "analyze" /\ configs = <<>> /\ criteria # <<>>) =>
        /\ ret.raised = "none"
        /\ ret.value.summary.total = 0
        /\ ret.value.summary.pareto_count = 0
        /\ FEq(ret.value.summary.pareto_ratio, Int2F(0))
        /\ ret.value.pareto_front = <<>>
        /\ ret.value.dominated = <<>>
        /\ \A key \in DOMAIN ret.value \cap
                      {"front_tradeoffs", "sweet_spots", "traps", "tier_transitions",
                       "segment_bests", "weighted_ranking"} :
               ret.value[key] = <<>>

\* C6: analyze called with an empty criteria list fails with an error
\* instead of computing and returning a result.
C6_NoCriteriaIsAnError ==
    (ret.op = "analyze" /\ criteria = <<>>) => ret.raised # "none"

\* analyze ran and returned a result
Analyzed == ret.op = "analyze" /\ ret.raised = "none"

MinimizeCriteria == {k \in 1..Len(criteria) : criteria[k].direction = "minimize"}

\* an axis was passed, or exactly one criterion has direction minimize
AxisResolved == ret.sort_field # NoAxis \/ Cardinality(MinimizeCriteria) = 1

AxisKeys == {"sweet_spots", "tier_transitions", "segment_bests"}

\* C15: the result holds sweet_spots, traps, tier_transitions and
\* segment_bests and no weighted_ranking if and only if an axis was resolved;
\* otherwise it holds weighted_ranking, none of sweet_spots, tier_transitions
\* and segment_bests, and traps only when some pair satisfies the axis-less
\* trap condition.  The counts in the summary are the lengths of the
\* sub-results present.
C15_ResultKeysFollowAxis ==
    Analyzed =>
        LET r == ret.value
            keys == DOMAIN r
            counts == DOMAIN r.summary \ {"total", "pareto_count", "pareto_ratio"}
        IN IF AxisResolved
           THEN /\ AxisKeys \cup {"traps"} \subseteq keys
                /\ "weighted_ranking" \notin keys
                /\ counts = {"sweet_spots_count", "traps_count", "segment_count"}
                /\ r.summary.sweet_spots_count = Len(r.sweet_spots)
                /\ r.summary.traps_count = Len(r.traps)
                /\ r.summary.segment_count = Len(r.segment_bests)
           ELSE /\ "weighted_ranking" \in keys
                /\ AxisKeys \cap keys = {}
                /\ "traps" \in keys <=> \E i, j \in Indices : TrapCondition(i, j)
                /\ "traps" \in keys => r.traps # <<>>
                /\ counts = (IF "traps" \in keys THEN {"traps_count"} ELSE {})
                /\ "traps" \in keys => r.summary.traps_count = Len(r.traps)

\* an axis-less result with a traps entry
C15_Witness ==
    /\ Analyzed
    /\ ~ AxisResolved
    /\ "traps" \in DOMAIN ret.value
    /\ Len(ret.value.weighted_ranking) = N

\* C16: an axis passed to analyze is used unchanged with the caller's
\* direction; when none is passed, an axis is selected if and only if
\* exactly one criterion has direction minimize: that criterion, ascending,
\* with sort_field_auto_detected set; otherwise no axis is resolved.
C16_AxisResolution ==
    Analyzed =>
        LET r == ret.value
            keys == DOMAIN r
        IN IF ret.sort_field # NoAxis
           THEN /\ r.sort_field = ret.sort_field
                /\ r.sort_direction = ret.sort_direction
                /\ "sort_field_auto_detected" \notin keys
           ELSE IF Cardinality(MinimizeCriteria) = 1
           THEN /\ \E k \in MinimizeCriteria : r.sort_field = criteria[k].name
                /\ r.sort_direction = "asc"
                /\ "sort_field_auto_detected" \in keys
                /\ r.sort_field_auto_detected = TRUE
           ELSE /\ {"sort_field", "sort_direction", "sort_field_auto_detected"} \cap keys = {}
                /\ "weighted_ranking" \in keys

\* an axis detected among three criteria, against a descending direction
\* passed by the caller
C16_Witness ==
    /\ Analyzed
    /\ ret.sort_field = NoAxis
    /\ ret.sort_direction = "desc"
    /\ Len(criteria) = 3
    /\ criteria[2].direction = "minimize"
    /\ "sort_field" \in DOMAIN ret.value
    /\ ret.value.sort_field = "perf"
    /\ ret.value.sort_direction = "asc"

\* C20: analyze leaves the candidate list unchanged in length and order and
\* every existing field of every candidate unchanged; it adds the name
\* "#<index>" to the candidates that lack a name and nothing else, whether
\* it returns or raises.
C20_OnlyNamesAreFilled ==
    ret.op = "analyze" =>
        /\ Len(configs) = Len(ret.input)
        /\ \A k \in 1..Len(ret.input) :
               /\ DOMAIN configs[k] = DOMAIN ret.input[k] \cup {"name"}
               /\ \A f \in DOMAIN ret.input[k] : configs[k][f] = ret.input[k][f]
               /\ "name" \notin DOMAIN ret.input[k] => configs[k].name = AutoName(k - 1)

\* a first run on a named candidate followed by an unnamed one
C20_Witness ==
    /\ ret.op = "analyze"
    /\ ret.run = 1
    /\ Len(ret.input) = 2
    /\ "name" \in DOMAIN ret.input[1]
    /\ "name" \notin DOMAIN ret.input[2]
    /\ configs[1].name = "A"
    /\ configs[2].name = "#1"

\* the normalized value of candidate i on criterion k, with min and max
\* taken over the whole candidate list
Normalized(i, k) ==
    LET vals == FieldValues(criteria[k].name)
    IN _normalize_value(Get(Cfg(i), criteria[k].name),
                        CHOOSE v \in vals : \A u \in vals : v <= u,
                        CHOOSE v \in vals : \A u \in vals : u <= v,
                        criteria[k].direction)

\* the candidates that no other candidate dominates
FrontMembers == {i \in Indices : NotDominated(i)}

\* C27: the analyze result contains front_tradeoffs if and only if the
\* Pareto front has at least 2 members; when present it has one per-item
\* entry for every front member, in front order, and for each item the
\* strengths (the criteria with normalized value >= 0.8) and the weaknesses
\* (those with normalized value <= 0.2) are disjoint.
C27_FrontTradeoffsPresence ==
    Analyzed =>
        LET r == ret.value IN
        /\ "front_tradeoffs" \in DOMAIN r <=> Cardinality(FrontMembers) >= 2
        /\ "front_tradeoffs" \in DOMAIN r =>
               /\ Len(r.front_tradeoffs) = 1
               /\ [k \in 1..Len(r.front_tradeoffs[1].items) |-> r.front_tradeoffs[1].items[k].index]
                      = r.pareto_front
               /\ Elems(r.pareto_front) = FrontMembers
               /\ \A k \in 1..Len(r.front_tradeoffs[1].items) :
                      LET item == r.front_tradeoffs[1].items[k] IN
                      /\ Elems(item.strengths)
                             = {criteria[c].name : c \in {c \in 1..Len(criteria) :
                                                            FLeq(Frac(8, 10), Normalized(item.index, c))}}
                      /\ Elems(item.weaknesses)
                             = {criteria[c].name : c \in {c \in 1..Len(criteria) :
                                                            FLeq(Normalized(item.index, c), Frac(2, 10))}}
                      /\ Elems(item.strengths) \cap Elems(item.weaknesses) = {}

\* a result with trade-offs in which a front member has a strength and a
\* weakness
C27_Witness ==
    /\ Analyzed
    /\ "front_tradeoffs" \in DOMAIN ret.value
    /\ \E k \in 1..Len(ret.value.front_tradeoffs[1].items) :
           /\ ret.value.front_tradeoffs[1].items[k].strengths # <<>>
           /\ ret.value.front_tradeoffs[1].items[k].weaknesses # <<>>

=============================================================================
